---- MODULE Spec2Model ----
(***************************************************************************)
(* Model of the Memory-RAG retrieval subsystem of gibsey-bookclub-mvp:     *)
(*   - the in-memory vector index   (memory_rag/indexer.py)                *)
(*   - the retrieval service        (memory_rag/main.py)                   *)
(*   - the CDC ingest worker        (scripts/kafka_embedding_consumer.py)  *)
(*   - the reranker                 (memory_rag/reranker.py)               *)
(*   - the locks of the three, under interleavings of threads              *)
(*                                                                         *)
(* Floats are fixed-point integers: the float x is the integer x * Unit,   *)
(* and a product of two floats (an inner product, a squared norm) is in    *)
(* units of 1 / (Unit * Unit).  A vector of DIM floats is the record       *)
(*   [len, head, sp]: its length, its leading components (every component  *)
(* after them is 0.0) and whether some component is NaN or +-infinity.     *)
(***************************************************************************)
EXTENDS Integers, Sequences, FiniteSets, TLC

VARIABLES
    index,          \* VectorIndex.index: the rows of the faiss IndexFlatIP
    id_map,         \* VectorIndex.id_map: slot -> page_id
    reverse_map,    \* VectorIndex.reverse_map: page_id -> slot
    next_id,        \* VectorIndex.next_id
    last,           \* history: the last call on the index and what it returned
    pre,            \* history: the index as it was when that call started
    boot,           \* the _bootstrap_index task of the retrieval service
    req,            \* the GET /retrieve request being served, and its response
    log,            \* the partition of the CDC topic that the worker consumes
    flags,          \* the worker's DRY_RUN and REFRESH_MEMORY_RAG
    wk,             \* the consumer: position in run_consumer, offsets, locals
    stats,          \* the worker's stats dict
    outcome,        \* history: how the processing of the current message went
    stored,         \* history: per page, the offset of the event last PUT upstream
    refreshed,      \* history: per page, the offset of the event last POSTed to /refresh
    lock,           \* per lock (index, stats, rerank), the thread that holds it
    threads,        \* per thread, the job it runs and the steps it has left
    CACHE,          \* embed_client.CACHE: its items in insertion order, in runs
    tasks           \* per coroutine in embed_client.embed_text, where it is

idxVars == <<index, id_map, reverse_map, next_id>>
svcVars == <<boot, req>>
wkVars == <<log, flags, wk, stats, outcome, stored, refreshed>>
thVars == <<lock, threads>>
ecVars == <<CACHE, tasks>>
vars == <<index, id_map, reverse_map, next_id, last, pre, boot, req,
          log, flags, wk, stats, outcome, stored, refreshed, lock, threads,
          CACHE, tasks>>

-----------------------------------------------------------------------------
(* Floats and vectors *)

DIM == 768
Unit == 5

None == "<None>"

Vec(h, n, s) == [len |-> n, head |-> h, sp |-> s]

\* Inputs: 2*e1, (0.6, 0.8, 0, ...), the all-zero vector, a vector with a NaN
\* component, one with an infinite component, and one of 767 components.
v_2e1   == Vec(<<10, 0>>, DIM, "fin")
v_34    == Vec(<<3, 4>>, DIM, "fin")
v_zero  == Vec(<<0, 0>>, DIM, "fin")
v_nan   == Vec(<<0, 0>>, DIM, "nan")
v_inf   == Vec(<<0, 5>>, DIM, "inf")
v_short == Vec(<<5, 0>>, DIM - 1, "fin")

ValidVectors == {v_2e1, v_34, v_zero, v_nan, v_inf}
InputVectors == ValidVectors \cup {v_short}
RefreshVectors == {v_2e1, v_nan, v_short}
SearchQueries == {v_2e1, v_34, v_zero, v_nan, v_short}

PageIds == {"", "p1", "p2"}

RECURSIVE SumSq(_)
SumSq(h) == IF h = <<>> THEN 0 ELSE Head(h) * Head(h) + SumSq(Tail(h))

RECURSIVE Dot(_, _)
Dot(a, b) == IF a = <<>> THEN 0 ELSE Head(a) * Head(b) + Dot(Tail(a), Tail(b))

isqrt(n) == CHOOSE r \in 0..n : r * r <= n /\ n < (r + 1) * (r + 1)

\* np.array(vector, dtype=np.float32).reshape(1, DIM) raises ValueError
\* unless the list has exactly DIM elements.
reshape_ok(v) == v.len = DIM

\* (mutant) the row is stored as given, without normalization
normalize_none(v) == v

\* faiss.normalize_L2: nr = squared norm; the row is scaled by 1/sqrt(nr)
\* only if nr > 0.  A zero row stays zero; with a NaN component nr is NaN,
\* nr > 0 is false and the row is left as it is; with an infinite component
\* the scale is 0, so finite components become 0 and inf * 0 is NaN.
normalize_L2(v) ==
    IF v.sp = "nan" THEN v
    ELSE IF v.sp = "inf"
         THEN [v EXCEPT !.head = [i \in DOMAIN v.head |-> 0], !.sp = "nan"]
    ELSE LET nr == SumSq(v.head)
         IN  IF nr > 0
             THEN [v EXCEPT !.head =
                      [i \in DOMAIN v.head |-> (v.head[i] * Unit) \div isqrt(nr)]]
             ELSE v

\* squared L2 norm of a stored row, in units of 1/(Unit*Unit); NaN rows have none
IsFinite(v) == v.sp = "fin"
NormSq(v) == SumSq(v.head)

\* inner product of two rows (IndexFlatIP metric); NaN if either has a NaN
ip_is_nan(a, b) == ~IsFinite(a) \/ ~IsFinite(b)
inner_product(a, b) == Dot(a.head, b.head)

-----------------------------------------------------------------------------
(* Python dict helpers *)

EmptyMap == [x \in {} |-> x]
Put(f, key, val) == [x \in (DOMAIN f) \cup {key} |-> IF x = key THEN val ELSE f[x]]
Del(f, key) == [x \in (DOMAIN f) \ {key} |-> f[x]]
Truthy(pid) == pid # None /\ pid # ""

\* The index as one value
IndexState == [index |-> index, id_map |-> id_map,
               reverse_map |-> reverse_map, next_id |-> next_id]
EmptyIndex == [index |-> <<>>, id_map |-> EmptyMap,
               reverse_map |-> EmptyMap, next_id |-> 0]

-----------------------------------------------------------------------------
(* VectorIndex (memory_rag/indexer.py) *)

Min(a, b) == IF a <= b THEN a ELSE b

\* "for pid, idx in self.reverse_map.items(): if idx == i: old_page_id = pid"
lookup(rm, i) ==
    IF \E pid \in DOMAIN rm : rm[pid] = i
    THEN CHOOSE pid \in DOMAIN rm : rm[pid] = i
    ELSE None

\* The rebuild loop of add_vector and remove_vector: a new flat index and new
\* maps holding every row i # skip whose page id is found and is truthy
\* ("if old_page_id:"), renumbered from 0 in the old order.
copy_except(xb, rm, skip) ==
    LET kept == SelectSeq([i \in 1..Len(xb) |-> i - 1],
                          LAMBDA i : i # skip /\ Truthy(lookup(rm, i)))
        n    == Len(kept)
        pidAt(j) == lookup(rm, kept[j + 1])
    IN  [index       |-> [j \in 1..n |-> xb[kept[j] + 1]],
         id_map      |-> [j \in 0..(n - 1) |-> pidAt(j)],
         reverse_map |-> [pid \in {pidAt(j) : j \in 0..(n - 1)} |->
                             CHOOSE j \in 0..(n - 1) :
                                 /\ pidAt(j) = pid
                                 /\ \A j2 \in 0..(n - 1) : pidAt(j2) = pid => j2 <= j],
         next_id     |-> n]

\* (mutant) the old mapping is deleted from reverse_map only: the old row and
\* its id_map entry stay
drop_existing_stale(s, page_id) ==
    [s EXCEPT !.reverse_map = Del(s.reverse_map, page_id)]

\* add_vector's branch for a page_id that is already indexed (lines 55-117)
drop_existing(s, page_id) ==
    LET old_idx == s.reverse_map[page_id]
        rm      == Del(s.reverse_map, page_id)
    IN  IF Len(s.index) > 1
        THEN copy_except(s.index, rm, old_idx)
        ELSE EmptyIndex

\* (mutant) an indexed page's row is overwritten in its slot
add_vector_inplace(s, page_id, vec_np) ==
    IF page_id \in DOMAIN s.reverse_map
    THEN [s EXCEPT !.index[s.reverse_map[page_id] + 1] = vec_np]
    ELSE [index       |-> Append(s.index, vec_np),
          id_map      |-> Put(s.id_map, s.next_id, page_id),
          reverse_map |-> Put(s.reverse_map, page_id, s.next_id),
          next_id     |-> s.next_id + 1]

\* add_vector under the lock, vec_np being the normalized row
add_vector(s, page_id, vec_np) ==
    LET s1 == IF page_id \in DOMAIN s.reverse_map
              THEN drop_existing(s, page_id)
              ELSE s
    IN  [index       |-> Append(s1.index, vec_np),
         id_map      |-> Put(s1.id_map, s1.next_id, page_id),
         reverse_map |-> Put(s1.reverse_map, page_id, s1.next_id),
         next_id     |-> s1.next_id + 1]

\* (mutant) the page's map entries are deleted and the flat index is left as
\* it was, so its slot stays behind with no page id
remove_vector_gap(s, page_id) ==
    [s EXCEPT !.id_map = Del(s.id_map, s.reverse_map[page_id]),
              !.reverse_map = Del(s.reverse_map, page_id)]

\* remove_vector for a page_id that is indexed (lines 184-236)
remove_vector(s, page_id) ==
    LET idx_to_remove == s.reverse_map[page_id]
    IN  IF Len(s.index) > 1
        THEN copy_except(s.index, s.reverse_map, idx_to_remove)
        ELSE EmptyIndex

\* clear
clear(s) == EmptyIndex

\* bulk_add for a non-empty dict, given as the sequence of its items in
\* insertion order (keys distinct); rows are normalized before the lock
bulk_add(s, page_vectors) ==
    LET n == Len(page_vectors)
    IN  [index       |-> [i \in 1..n |-> normalize_L2(page_vectors[i][2])],
         id_map      |-> [i \in 0..(n - 1) |-> page_vectors[i + 1][1]],
         reverse_map |-> [pid \in {page_vectors[i][1] : i \in 1..n} |->
                             (CHOOSE i \in 1..n : page_vectors[i][1] = pid) - 1],
         next_id     |-> n]

\* get_stats
get_stats(s) ==
    [total_vectors      |-> Len(s.index),
     dimension          |-> DIM,
     memory_usage_bytes |-> Len(s.index) * DIM * 4,
     unique_page_ids    |-> Cardinality(DOMAIN s.id_map)]

\* IndexFlatIP.search(query, k) for one query: the label/score lists faiss
\* can return, without the -1 padding.  The k best rows by inner product are
\* kept in a heap; a row enters only if its score is strictly greater than
\* the heap's minimum, so a row whose score is NaN never enters, and neither
\* does a row that has k earlier rows scoring at least as much.  Which of
\* several equal rows is evicted or listed first depends on the faiss build.
faiss_search(xb, q, k) ==
    LET cand     == {i \in 0..(Len(xb) - 1) : ~ip_is_nan(xb[i + 1], q)}
        score(i) == inner_product(xb[i + 1], q)
        m        == Min(k, Cardinality(cand))
        picks    == {S \in SUBSET cand :
                        /\ Cardinality(S) = m
                        /\ \A i \in cand \ S : \A j \in S : score(i) <= score(j)
                        /\ \A j \in S :
                             Cardinality({i \in cand : i < j /\ score(i) >= score(j)}) < k}
    IN  UNION {
          {[n \in 1..m |-> <<r[n], score(r[n])>>] :
             r \in {f \in [1..m -> S] :
                      /\ \A a, b \in 1..m : a # b => f[a] # f[b]
                      /\ \A a \in 1..(m - 1) : score(f[a]) >= score(f[a + 1])}}
          : S \in picks}

\* search under the lock: the lists of (page_id, score) it can return
search(s, query_vector, k) ==
    LET query_np == normalize_L2(query_vector)
    IN  IF Len(s.index) = 0
        THEN {<<>>}
        ELSE LET k_effective == Min(k, Len(s.index))
                 found(r) == SelectSeq(r, LAMBDA e : e[1] \in DOMAIN s.id_map)
             IN  {[n \in 1..Len(found(r)) |-> <<s.id_map[found(r)[n][1]], found(r)[n][2]>>] :
                    r \in faiss_search(s.index, query_np, k_effective)}

-----------------------------------------------------------------------------
(* Calls on the index: the specification Spec *)

MaxK == 3
MaxBulk == 2

\* The dicts given to bulk_add: up to MaxBulk pages in any insertion order,
\* each with the vector the upstream table holds for it.
BulkRow(p) == CASE p = "p1" -> v_2e1
                [] p = "p2" -> v_zero
                [] OTHER    -> v_34
BulkItems ==
    UNION {{f \in [1..n -> {<<p, BulkRow(p)>> : p \in PageIds}] :
               \A a, b \in 1..n : a # b => f[a][1] # f[b][1]} : n \in 0..MaxBulk}

NoCall == [op |-> "none", page_id |-> None, vector |-> v_zero, k |-> 0,
           items |-> <<>>, result |-> "none", ret |-> <<>>]

SetIndex(s) ==
    /\ index' = s.index
    /\ id_map' = s.id_map
    /\ reverse_map' = s.reverse_map
    /\ next_id' = s.next_id

\* VectorIndex.add_vector(page_id, vector)
Add(p, v) ==
    /\ pre' = IndexState
    /\ UNCHANGED <<svcVars, wkVars, thVars, ecVars>>
    /\ IF reshape_ok(v)
       THEN /\ SetIndex(add_vector(IndexState, p, normalize_L2(v)))
            /\ last' = [NoCall EXCEPT !.op = "add", !.page_id = p, !.vector = v,
                                      !.result = "ok"]
       ELSE /\ UNCHANGED idxVars
            /\ last' = [NoCall EXCEPT !.op = "add", !.page_id = p, !.vector = v,
                                      !.result = "ValueError"]

\* VectorIndex.remove_vector(page_id)
Remove(p) ==
    /\ pre' = IndexState
    /\ UNCHANGED <<svcVars, wkVars, thVars, ecVars>>
    /\ IF p \in DOMAIN reverse_map
       THEN /\ SetIndex(remove_vector(IndexState, p))
            /\ last' = [NoCall EXCEPT !.op = "remove", !.page_id = p, !.result = "True"]
       ELSE /\ UNCHANGED idxVars
            /\ last' = [NoCall EXCEPT !.op = "remove", !.page_id = p, !.result = "False"]

\* VectorIndex.clear()
Clear ==
    /\ pre' = IndexState
    /\ UNCHANGED <<svcVars, wkVars, thVars, ecVars>>
    /\ SetIndex(clear(IndexState))
    /\ last' = [NoCall EXCEPT !.op = "clear", !.result = "ok"]

\* VectorIndex.bulk_add(page_vectors): an empty dict returns at once
BulkAdd(items) ==
    /\ pre' = IndexState
    /\ UNCHANGED <<svcVars, wkVars, thVars, ecVars>>
    /\ IF items = <<>>
       THEN UNCHANGED idxVars
       ELSE SetIndex(bulk_add(IndexState, items))
    /\ last' = [NoCall EXCEPT !.op = "bulk_add", !.items = items, !.result = "ok"]

\* VectorIndex.search(query_vector, k)
Search(q, k) ==
    /\ pre' = IndexState
    /\ UNCHANGED <<svcVars, wkVars, thVars, ecVars>>
    /\ UNCHANGED idxVars
    /\ IF reshape_ok(q)
       THEN \E hits \in search(IndexState, q, k) :
               last' = [NoCall EXCEPT !.op = "search", !.vector = q, !.k = k,
                                      !.result = "ok", !.ret = hits]
       ELSE last' = [NoCall EXCEPT !.op = "search", !.vector = q, !.k = k,
                                   !.result = "ValueError"]

\* VectorIndex.get_stats()
GetStats ==
    /\ pre' = IndexState
    /\ UNCHANGED <<svcVars, wkVars, thVars, ecVars>>
    /\ UNCHANGED idxVars
    /\ last' = [NoCall EXCEPT !.op = "stats", !.result = "ok",
                              !.ret = get_stats(IndexState)]


-----------------------------------------------------------------------------
(* The retrieval service (memory_rag/main.py).  Its handlers and background *)
(* tasks are coroutines of one event loop: each runs without interruption   *)
(* from one await to the next.                                              *)

MaxBoots == 2

\* The upstream page_vectors table, as the pages of rows the paged scan
\* returns; the pageState token of page i is i + 1, the last page has none.
Row(p, v) == [page_id |-> p, vector |-> v]
UpstreamPages ==
    << <<Row("p1", v_2e1), Row("p2", v_short)>>,
       <<Row("p2", v_34), Row("p1", v_zero)>> >>

NotSeen == [index |-> <<>>, id_map |-> EmptyMap, reverse_map |-> EmptyMap,
            next_id |-> -1]

\* The _bootstrap_index task (one at a time; runs counts the tasks started):
\* where it is, its locals page_state and batch (the dict's items in insertion
\* order), and history: the index when it started and when it ended, whether
\* a row was obtained, how many pages of the scan were obtained, whether
\* somebody else wrote the index meanwhile, what the last concurrent
\* search found there, and the pages of the scan whose rows were collected.
NoTask == [pc |-> "none", runs |-> 0, page_state |-> 0, batch |-> <<>>,
           pre |-> EmptyIndex, post |-> EmptyIndex, got_rows |-> FALSE,
           scanned |-> 0, other_writes |-> FALSE, seen |-> NotSeen,
           pages |-> <<>>]

Running == boot.pc = "fetch"

\* (mutant) the rows are collected in a list: a page id that comes again is
\* added again
list_append(items, key, val) == Append(items, <<key, val>>)

\* batch[page_id] = vector
dict_set(items, key, val) ==
    IF \E i \in 1..Len(items) : items[i][1] = key
    THEN [i \in 1..Len(items) |-> IF items[i][1] = key THEN <<key, val>> ELSE items[i]]
    ELSE Append(items, <<key, val>>)

\* "if page_id and vector and len(vector) == 768: batch[page_id] = vector"
RECURSIVE collect(_, _)
collect(batch, rows) ==
    IF rows = <<>> THEN batch
    ELSE LET row == Head(rows)
         IN  collect(IF Truthy(row.page_id) /\ row.vector.len = DIM
                     THEN dict_set(batch, row.page_id, row.vector)
                     ELSE batch,
                     Tail(rows))

\* startup_event: asyncio.create_task(_bootstrap_index());
\* POST /bootstrap: background_tasks.add_task(_bootstrap_index)
StartBootstrap ==
    /\ boot.pc \in {"none", "done", "failed"}
    /\ boot.runs < MaxBoots
    /\ boot' = [NoTask EXCEPT !.pc = "start", !.runs = boot.runs + 1]
    /\ UNCHANGED <<idxVars, last, pre, req, wkVars, thVars, ecVars>>

\* _bootstrap_index up to its first await: vector_index.clear()
BootClear ==
    /\ boot.pc = "start"
    /\ SetIndex(clear(IndexState))
    /\ boot' = [boot EXCEPT !.pc = "fetch", !.pre = IndexState]
    /\ UNCHANGED <<last, pre, req, wkVars, thVars, ecVars>>

\* the end of the scan loop: "if batch: vector_index.bulk_add(batch)"
BootFinish(batch, got, n) ==
    LET s == IF batch # <<>> THEN bulk_add(IndexState, batch) ELSE IndexState
    IN  /\ SetIndex(s)
        /\ boot' = [boot EXCEPT !.pc = "done", !.batch = batch,
                                !.got_rows = got, !.scanned = n, !.post = s,
                                !.pages = IF n = boot.scanned THEN @ ELSE Append(@, n)]

\* (mutant) the loop goes on without a pageState
more_pages_always(page_state) == TRUE

\* "page_state = data.get('pageState'); if not page_state: break"
more_pages(page_state) == page_state # 0

\* one response of the paged scan, and what follows it up to the next await
BootFetch(resp) ==
    /\ Running
    /\ UNCHANGED <<last, pre, req, wkVars, thVars, ecVars>>
    /\ CASE resp = "raise" ->
              \* client.get raised: "except Exception", nothing is loaded
              /\ boot' = [boot EXCEPT !.pc = "failed", !.post = IndexState]
              /\ UNCHANGED idxVars
         [] resp = "status" ->
              \* response.status_code != 200: break
              BootFinish(boot.batch, boot.got_rows, boot.scanned)
         [] OTHER ->
              LET i     == IF boot.page_state = 0 THEN 1 ELSE boot.page_state
                  rows  == UpstreamPages[i]
                  batch == collect(boot.batch, rows)
                  token == IF i < Len(UpstreamPages) THEN i + 1 ELSE 0
              IN  IF rows = <<>>
                  THEN BootFinish(boot.batch, boot.got_rows, boot.scanned)
                  ELSE IF ~more_pages(token)
                  THEN BootFinish(batch, TRUE, i)
                  ELSE /\ boot' = [boot EXCEPT !.batch = batch,
                                               !.page_state = token,
                                               !.got_rows = TRUE,
                                               !.scanned = i,
                                               !.pages = Append(@, i)]
                       /\ UNCHANGED idxVars

\* POST /refresh: RefreshBody validates len(vector) == 768, then add_vector
Refresh(p, v) ==
    /\ pre' = IndexState
    /\ UNCHANGED <<req, wkVars, thVars, ecVars>>
    /\ IF v.len = DIM
       THEN /\ SetIndex(add_vector(IndexState, p, normalize_L2(v)))
            /\ boot' = IF Running THEN [boot EXCEPT !.other_writes = TRUE] ELSE boot
            /\ last' = [NoCall EXCEPT !.op = "refresh", !.page_id = p, !.vector = v,
                                      !.result = "202"]
       ELSE /\ UNCHANGED <<idxVars, boot>>
            /\ last' = [NoCall EXCEPT !.op = "refresh", !.page_id = p, !.vector = v,
                                      !.result = "422"]

\* GET /retrieve at "similar_pages = vector_index.search(query_vector, k)"
RetrieveSearch(q, k) ==
    /\ pre' = IndexState
    /\ UNCHANGED <<req, wkVars, thVars, ecVars>>
    /\ UNCHANGED idxVars
    /\ boot' = IF Running THEN [boot EXCEPT !.seen = IndexState] ELSE boot
    /\ \E hits \in search(IndexState, q, k) :
          last' = [NoCall EXCEPT !.op = "retrieve", !.vector = q, !.k = k,
                                 !.result = "ok", !.ret = hits]


\* POST /bulk-refresh, the endpoint bootstrap.load_vectors_to_service sends
\* its batches to: the application declares no such route (its routes are
\* /refresh, /retrieve, /stats, /bootstrap, /version and /health), so the
\* framework answers 404 and no handler runs
BulkRefreshBodies ==
    {<< <<"p1", v_34>> >>, << <<"p2", v_34>>, <<"p1", v_short>> >>}

BulkRefresh(items) ==
    /\ pre' = IndexState
    /\ UNCHANGED <<idxVars, svcVars, wkVars, thVars, ecVars>>
    /\ last' = [NoCall EXCEPT !.op = "bulk_refresh", !.items = items,
                              !.result = "404"]

\* (mutant) /health does not look at the index size
health_ok(s) ==
    [status_code |-> 200, status |-> "healthy", index_size |-> Len(s.index)]

\* GET /health: the status code and the status and index_size of the body
health(s) ==
    LET index_size == Len(s.index)
        status     == IF index_size > 0 THEN "healthy" ELSE "degraded"
    IN  [status_code |-> IF status = "healthy" THEN 200 ELSE 207,
         status      |-> status,
         index_size  |-> index_size]

Health ==
    /\ pre' = IndexState
    /\ UNCHANGED <<idxVars, svcVars, wkVars, thVars, ecVars>>
    /\ last' = [NoCall EXCEPT !.op = "health", !.result = "ok",
                              !.ret = health(IndexState)]

\* GET /retrieve?q=..&k=.. as one coroutine.  A request is the length of q
\* and the k parameter (<<k>>, or <<>> when omitted); req holds where the handler is,
\* its locals, the status of the response, and history: how many embedding
\* calls, index searches and body fetches it has made, how the embedding call
\* was answered, and how the fetch for each hit was.
MaxRequests == 2
QueryLengths == {0, 1, 2}
KParams == {<<>>, <<0>>, <<1>>, <<2>>, <<11>>}
QuoteScores == {1, 3}

NoReq == [pc |-> "idle", n |-> 0, qlen |-> 0, kparam |-> <<>>, k |-> 0,
          status |-> 0, similar_pages |-> <<>>, i |-> 0, results |-> <<>>,
          embed_calls |-> 0, searches |-> 0, fetches |-> 0, embed_resp |-> "none",
          fetched |-> <<>>]

\* the Query(...) declarations of retrieve: q is required with min_length=2,
\* k defaults to 4 with ge=1, le=10; a request that fails them is answered
\* 422 by the framework and the handler is not called
query_valid(qlen, kparam) ==
    /\ qlen >= 2
    /\ kparam = <<>> \/ (kparam[1] >= 1 /\ kparam[1] <= 10)

\* a request arrives and is validated
RetrieveRequest(qlen, kparam) ==
    /\ req.pc \in {"idle", "done"}
    /\ req.n < MaxRequests
    /\ req' = IF query_valid(qlen, kparam)
              THEN [NoReq EXCEPT !.pc = "embed", !.n = req.n + 1, !.qlen = qlen,
                                 !.kparam = kparam,
                                 !.k = IF kparam = <<>> THEN 4 ELSE kparam[1]]
              ELSE [NoReq EXCEPT !.pc = "done", !.n = req.n + 1, !.qlen = qlen,
                                 !.kparam = kparam, !.status = 422]
    /\ UNCHANGED <<idxVars, last, pre, boot, wkVars, thVars, ecVars>>

\* embed_text answers: the POST raised a transport error or raise_for_status
\* an error status (httpx.HTTPError: 503); the response has no embedding or
\* one of another length (HTTPException(500), caught by "except Exception"
\* and raised again as 500); or it has 768 floats, and retrieve goes on to
\* vector_index.search and, with hits, to the first fetch_page_content
RetrieveEmbed(resp) ==
    /\ req.pc = "embed"
    /\ UNCHANGED <<idxVars, boot, wkVars, thVars, ecVars>>
    /\ CASE resp \in {"transport", "status"} ->
              /\ req' = [req EXCEPT !.pc = "done", !.status = 503,
                                    !.embed_calls = 1, !.embed_resp = resp]
              /\ UNCHANGED <<last, pre>>
         [] resp \in {"wrongdim", "empty"} ->
              /\ req' = [req EXCEPT !.pc = "done", !.status = 500,
                                    !.embed_calls = 1, !.embed_resp = resp]
              /\ UNCHANGED <<last, pre>>
         [] OTHER ->
              \E hits \in search(IndexState, v_2e1, req.k) :
                 /\ req' = [req EXCEPT !.pc = IF hits = <<>> THEN "done" ELSE "fetch",
                                       !.status = IF hits = <<>> THEN 200 ELSE 0,
                                       !.similar_pages = hits, !.i = 1,
                                       !.embed_calls = 1, !.searches = 1,
                                       !.embed_resp = resp]
                 /\ pre' = IndexState
                 /\ last' = [NoCall EXCEPT !.op = "retrieve", !.vector = v_2e1,
                                           !.k = req.k, !.result = "ok", !.ret = hits]

\* (mutant) a body that is missing upstream aborts the request with 500
RetrieveFetch_abort(resp, score) ==
    /\ req.pc = "fetch"
    /\ UNCHANGED <<idxVars, last, pre, boot, wkVars, thVars, ecVars>>
    /\ LET hit   == req.similar_pages[req.i]
           res   == IF resp = "body"
                    THEN Append(req.results, [page_id |-> hit[1], score |-> score])
                    ELSE req.results
           final == req.i = Len(req.similar_pages)
       IN  req' = IF resp = "404"
                  THEN [req EXCEPT !.pc = "done", !.status = 500,
                                   !.fetches = req.fetches + 1,
                                   !.fetched = Append(req.fetched, resp)]
                  ELSE [req EXCEPT !.results = res, !.i = req.i + 1,
                                   !.fetches = req.fetches + 1,
                                   !.fetched = Append(req.fetched, resp),
                                   !.pc = IF final THEN "done" ELSE "fetch",
                                   !.status = IF final THEN 200 ELSE 0]

\* fetch_page_content for the next hit answers: 404 or an error (None: the
\* hit is skipped), or a body, of which extract_relevant_quotes gives the
\* best quote with its score, or no quote; after the last hit the response
\* is returned
RetrieveFetch(resp, score) ==
    /\ req.pc = "fetch"
    /\ UNCHANGED <<idxVars, last, pre, boot, wkVars, thVars, ecVars>>
    /\ LET hit   == req.similar_pages[req.i]
           res   == IF resp = "body"
                    THEN Append(req.results, [page_id |-> hit[1], score |-> score])
                    ELSE req.results
           final == req.i = Len(req.similar_pages)
       IN  req' = [req EXCEPT !.results = res, !.i = req.i + 1,
                              !.fetches = req.fetches + 1,
                              !.fetched = Append(req.fetched, resp),
                              !.pc = IF final THEN "done" ELSE "fetch",
                              !.status = IF final THEN 200 ELSE 0]

-----------------------------------------------------------------------------
(* The reranker (memory_rag/reranker.py) *)

\* A candidate is a dict with an id and, under score_key, a score: <<s>>, or
\* <<>> when the dict has no such key.
MaxCands == 3
CandScores == {<<>>, <<1>>, <<2>>}
Candidates ==
    UNION {[1..n -> CandScores] : n \in 0..MaxCands}
Cand(i, sc) == [id |-> i, score |-> sc]
TopKs == {0, 1, 2, 6}
CrossScores == {1, 3}

\* key=lambda x: x.get(score_key, 0)
score_of(x) == IF x.score = <<>> THEN 0 ELSE x.score[1]

\* sorted(candidates, key=..., reverse=True): descending by key, candidates
\* of equal key in their original order (the sort is stable)
RECURSIVE insert_desc(_, _)
insert_desc(sorted, x) ==
    IF sorted = <<>> THEN <<x>>
    ELSE IF score_of(Head(sorted)) >= score_of(x)
         THEN <<Head(sorted)>> \o insert_desc(Tail(sorted), x)
         ELSE <<x>> \o sorted

RECURSIVE sorted_desc(_)
sorted_desc(cands) ==
    IF cands = <<>> THEN <<>>
    ELSE insert_desc(sorted_desc(SubSeq(cands, 1, Len(cands) - 1)),
                     cands[Len(cands)])

\* [:top_k] for top_k >= 0
take(cands, top_k) == SubSeq(cands, 1, Min(top_k, Len(cands)))

\* (mutant) pass-through without sorting
rerank_unsorted(mode, candidates, top_k, cross_scores) == take(candidates, top_k)

\* Reranker.rerank.  mode is "disabled" (USE_RERANKER false), "uninitialized"
\* (the model failed to load), "error" (model.predict raises) or "model"
\* (predict returns cross_scores, which replace the candidates' scores).
rerank(mode, candidates, top_k, cross_scores) ==
    IF mode \in {"disabled", "uninitialized"}
    THEN take(sorted_desc(candidates), top_k)
    ELSE IF candidates = <<>> THEN <<>>
    ELSE IF mode = "error"
    THEN take(sorted_desc(candidates), top_k)
    ELSE take(sorted_desc([i \in 1..Len(candidates) |->
                              [candidates[i] EXCEPT !.score = <<cross_scores[i]>>]]),
              top_k)

\* The arguments of a call reranker.rerank(query, candidates, top_k), and the
\* state of the reranker it meets
RerankCall(mode, scores, top_k) ==
    [NoCall EXCEPT !.op = "rerank_call", !.result = mode,
                   !.items = [i \in 1..Len(scores) |-> Cand(i, scores[i])],
                   !.k = top_k]

\* reranker.rerank(query, candidates, top_k) returns
Rerank(cross_scores) ==
    /\ last.op = "rerank_call"
    /\ UNCHANGED <<idxVars, pre, svcVars, wkVars, thVars, ecVars>>
    /\ last' = [last EXCEPT !.op = "rerank",
                            !.ret = rerank(last.result, last.items, last.k, cross_scores)]

-----------------------------------------------------------------------------
(* The CDC ingest worker (scripts/kafka_embedding_consumer.py) *)

MaxLog == 2
MaxRestarts == 1
EmbedAttempts == 5
StoreAttempts == 5

\* A message of the topic: whether its value parses as JSON, payload.op, and
\* payload.after's page_id and body (None when missing or empty).
Event(op, p, body) == [json |-> TRUE, op |-> op, page_id |-> p, body |-> body]
BadJson == [json |-> FALSE, op |-> None, page_id |-> None, body |-> None]
EventKinds ==
    {Event("c", "p1", "text"), Event("u", "p2", "text"),
     Event("r", "p1", "text"), Event("d", "p1", "text"),
     Event("c", "p1", None), BadJson}

\* the partitions the worker is run on
Logs == UNION {[1..n -> EventKinds] : n \in 0..MaxLog}

WkStart == [pc |-> "poll", pos |-> 1, committed |-> 1, cur |-> 0,
            attempts |-> 0, vector |-> v_zero, restarts |-> 0]

NotifyAttempts == 3

\* history of the current message: how each call ended, how the last store
\* request was answered, and at which attempt a call that failed gave up
NoOutcome == [embed |-> "none", store |-> "none", notify |-> "none",
              store_last |-> "none", gave_up_at |-> 0]

\* What a PUT to the upstream table can meet: a 2xx answer, no answer
\* (connection error, timeout), or an answer with an error status, on which
\* raise_for_status raises HTTPError
StoreResults == {"ok", "transport", "404", "400", "503"}

\* (mutant) the decorator retries without a limit
retry_always(result, attempts, limit) == result # "ok"

\* The retry decorators of generate_embedding and store_vector_in_stargate:
\* retry_if_exception_type(RequestException), which ConnectionError, Timeout
\* and HTTPError all are, and stop_after_attempt(limit), attempts being the
\* number of attempts that failed before this one
retry(result, attempts, limit) == result # "ok" /\ attempts + 1 < limit
NoWrites == [p \in {"p1", "p2"} |-> 0]

\* process_message up to the call of generate_embedding: the events it
\* returns on without embedding ("skip"), and the ones it fails on ("error")
triage(msg) ==
    IF ~msg.json THEN "error"
    ELSE IF msg.op \notin {"c", "u"} THEN "skip"
    ELSE IF ~Truthy(msg.page_id) \/ ~Truthy(msg.body) THEN "skip"
    ELSE "embed"

\* "except Exception" of process_message: stats['error_count'] += 1; the
\* function returns normally and run_consumer goes on to consumer.commit(msg)
fail_message(w) == [w EXCEPT !.pc = "commit", !.attempts = 0]

\* run_consumer: msg = consumer.poll(); process_message(msg) starts
Poll ==
    /\ wk.pc = "poll"
    /\ wk.pos <= Len(log)
    /\ LET msg == log[wk.pos]
           t   == triage(msg)
           w   == [wk EXCEPT !.cur = wk.pos, !.pos = wk.pos + 1, !.attempts = 0]
       IN  /\ wk' = IF t = "embed" THEN [w EXCEPT !.pc = "embed"]
                    ELSE IF t = "error" THEN fail_message(w)
                    ELSE [w EXCEPT !.pc = "commit"]
           /\ stats' = IF t = "error"
                       THEN [stats EXCEPT !.error_count = stats.error_count + 1]
                       ELSE stats
           /\ outcome' = NoOutcome
    /\ UNCHANGED <<idxVars, last, pre, svcVars, thVars, ecVars, log, flags, stored, refreshed>>

\* one attempt of generate_embedding (the retry decorator allows
\* EmbedAttempts of them): the request fails, or the model answers with an
\* embedding of 768 floats ("ok"), of another length ("wrongdim": a warning,
\* the embedding is returned), or with none ("empty": zeros are returned)
EmbedAttempt(result) ==
    /\ wk.pc = "embed"
    /\ IF result = "fail"
       THEN IF retry("fail", wk.attempts, EmbedAttempts)
            THEN /\ wk' = [wk EXCEPT !.attempts = wk.attempts + 1]
                 /\ UNCHANGED <<stats, outcome>>
            ELSE /\ wk' = fail_message(wk)
                 /\ stats' = [stats EXCEPT !.error_count = stats.error_count + 1]
                 /\ outcome' = [outcome EXCEPT !.embed = "failed",
                                               !.gave_up_at = wk.attempts + 1]
       ELSE /\ wk' = [wk EXCEPT !.pc = "store", !.attempts = 0,
                                !.vector = CASE result = "ok" -> v_34
                                             [] result = "wrongdim" -> v_short
                                             [] OTHER -> v_zero]
            /\ outcome' = [outcome EXCEPT !.embed = result]
            /\ UNCHANGED stats
    /\ UNCHANGED <<idxVars, last, pre, svcVars, thVars, ecVars, log, flags, stored, refreshed>>

\* "if store_vector_in_stargate(...)": stats['processed_count'] += 1, then
\* notify_memory_rag is called
stored_ok(w) == [w EXCEPT !.pc = "notify", !.attempts = 0]

\* one attempt of store_vector_in_stargate (StoreAttempts are allowed); in a
\* dry run it returns True without a request
StoreAttempt(result) ==
    /\ wk.pc = "store"
    /\ IF flags.dry_run
       THEN /\ result = "ok"
            /\ wk' = stored_ok(wk)
            /\ stats' = [stats EXCEPT !.processed_count = stats.processed_count + 1]
            /\ outcome' = [outcome EXCEPT !.store = "dry"]
            /\ UNCHANGED stored
       ELSE IF result = "ok"
       THEN /\ wk' = stored_ok(wk)
            /\ stats' = [stats EXCEPT !.processed_count = stats.processed_count + 1]
            /\ outcome' = [outcome EXCEPT !.store = "ok", !.store_last = "ok"]
            /\ stored' = [stored EXCEPT ![log[wk.cur].page_id] = wk.cur]
       ELSE IF retry(result, wk.attempts, StoreAttempts)
       THEN /\ wk' = [wk EXCEPT !.attempts = wk.attempts + 1]
            /\ outcome' = [outcome EXCEPT !.store_last = result]
            /\ UNCHANGED <<stats, stored>>
       ELSE /\ wk' = fail_message(wk)
            /\ stats' = [stats EXCEPT !.error_count = stats.error_count + 1]
            /\ outcome' = [outcome EXCEPT !.store = "failed", !.store_last = result,
                                          !.gave_up_at = wk.attempts + 1]
            /\ UNCHANGED stored
    /\ UNCHANGED <<idxVars, last, pre, svcVars, thVars, ecVars, log, flags, refreshed>>

\* (mutant) a failed POST /refresh is raised to process_message, which counts
\* the event as an error
Notify_reraise(result) ==
    /\ wk.pc = "notify"
    /\ wk' = [wk EXCEPT !.pc = "commit"]
    /\ IF ~flags.refresh \/ flags.dry_run
       THEN /\ result = "ok"
            /\ outcome' = [outcome EXCEPT !.notify = "off"]
            /\ UNCHANGED <<refreshed, stats>>
       ELSE IF result = "ok"
       THEN /\ outcome' = [outcome EXCEPT !.notify = "ok"]
            /\ refreshed' = [refreshed EXCEPT ![log[wk.cur].page_id] = wk.cur]
            /\ UNCHANGED stats
       ELSE /\ outcome' = [outcome EXCEPT !.notify = "failed"]
            /\ stats' = [stats EXCEPT !.error_count = stats.error_count + 1]
            /\ UNCHANGED refreshed
    /\ UNCHANGED <<idxVars, last, pre, svcVars, thVars, ecVars, log, flags, stored>>

\* notify_memory_rag: returns True at once unless REFRESH_MEMORY_RAG and not
\* DRY_RUN; else one POST /refresh, whose failure is caught inside the
\* function and returns False, so that its retry decorator (NotifyAttempts
\* attempts on RequestException) sees no exception and never retries
Notify(result) ==
    /\ wk.pc = "notify"
    /\ wk' = [wk EXCEPT !.pc = "commit"]
    /\ IF ~flags.refresh \/ flags.dry_run
       THEN /\ result = "ok"
            /\ outcome' = [outcome EXCEPT !.notify = "off"]
            /\ UNCHANGED refreshed
       ELSE IF result = "ok"
       THEN /\ outcome' = [outcome EXCEPT !.notify = "ok"]
            /\ refreshed' = [refreshed EXCEPT ![log[wk.cur].page_id] = wk.cur]
       ELSE /\ outcome' = [outcome EXCEPT !.notify = "failed"]
            /\ UNCHANGED refreshed
    /\ UNCHANGED <<idxVars, last, pre, svcVars, thVars, ecVars, log, flags, stats, stored>>

\* run_consumer: consumer.commit(msg), after process_message returned
Commit ==
    /\ wk.pc = "commit"
    /\ wk' = [wk EXCEPT !.pc = "poll", !.committed = wk.cur + 1]
    /\ UNCHANGED <<idxVars, last, pre, svcVars, thVars, ecVars, log, flags, stats, outcome,
                   stored, refreshed>>

\* consumer.poll or consumer.commit raises: run_consumer closes the consumer
\* and re-raises, consume_forever sleeps 5 s
Crash ==
    /\ wk.pc \in {"poll", "commit"}
    /\ wk.restarts < MaxRestarts
    /\ wk' = [wk EXCEPT !.pc = "down"]
    /\ UNCHANGED <<idxVars, last, pre, svcVars, thVars, ecVars, log, flags, stats, outcome,
                   stored, refreshed>>

\* (mutant) the new Consumer does not resume at the committed offset but
\* reads the partition from its beginning
Reconnect_rewind ==
    /\ wk.pc = "down"
    /\ wk' = [wk EXCEPT !.pc = "poll", !.pos = 1,
                        !.restarts = wk.restarts + 1]
    /\ UNCHANGED <<idxVars, last, pre, svcVars, thVars, ecVars, log, flags, stats, outcome,
                   stored, refreshed>>

\* (mutant) consume_forever does not loop: after the error the thread ends
Reconnect_exit ==
    /\ wk.pc = "down"
    /\ wk' = [wk EXCEPT !.pc = "exited"]
    /\ UNCHANGED <<idxVars, last, pre, svcVars, thVars, ecVars, log, flags, stats, outcome,
                   stored, refreshed>>

\* consume_forever calls run_consumer again: a new Consumer of the same
\* group resumes at the committed offset
Reconnect ==
    /\ wk.pc = "down"
    /\ wk' = [wk EXCEPT !.pc = "poll", !.pos = wk.committed,
                        !.restarts = wk.restarts + 1]
    /\ UNCHANGED <<idxVars, last, pre, svcVars, thVars, ecVars, log, flags, stats, outcome,
                   stored, refreshed>>

-----------------------------------------------------------------------------
(* Threads and locks: VectorIndex.lock (indexer.py), stats_lock             *)
(* (kafka_embedding_consumer.py) and rerank_lock (reranker.py).  A thread   *)
(* runs a job, which is a list of steps; a step under a lock is one read or *)
(* one store of a field.                                                    *)

Threads == {"t1", "t2"}
Locks == {"index", "stats", "rerank"}
NoLocks == [l \in Locks |-> None]

\* threading.Lock.locked()
locked_never(holder) == FALSE
locked(holder) == holder # None

Step(do, arg) == [do |-> do, arg |-> arg]
with_lock(l, body) == <<Step("acquire", l)>> \o body \o <<Step("release", l)>>

\* POST /refresh: add_vector
refresh == with_lock("index", <<Step("write", "add_vector")>>)
\* a call of remove_vector
remove_job == with_lock("index", <<Step("write", "remove_vector")>>)
\* GET /retrieve: embed_text, search, fetch_page_content
retrieve ==
    <<Step("net", "embed")>>
    \o with_lock("index", <<Step("scan", "search"), Step("map", "search")>>)
    \o <<Step("net", "fetch")>>
\* GET /stats: get_stats
stats_job == with_lock("index", <<Step("read", "get_stats")>>)
\* _bootstrap_index: clear, the upstream scan, bulk_add
bootstrap_job ==
    with_lock("index", <<Step("write", "clear")>>)
    \o <<Step("net", "scan")>>
    \o with_lock("index", <<Step("write", "bulk_add")>>)

\* (mutant) the /refresh notification is sent before stats_lock is released
process_message_holding(how) ==
    <<Step("net", "embed"), Step("acquire", "stats"), Step("count", "processed_count"),
      Step("net", "refresh"), Step("release", "stats")>>

\* process_message of the worker, for an event that is embedded and stored
\* ("ok"), whose embedding fails ("embed_error") or whose store fails
\* ("store_error")
process_message(how) ==
    IF how = "embed_error"
    THEN <<Step("net", "embed")>>
         \o with_lock("stats", <<Step("count", "error_count")>>)
    ELSE <<Step("net", "embed")>>
         \o with_lock("stats", <<Step("count", "embedding_time_ms_avg")>>)
         \o <<Step("net", "store")>>
         \o IF how = "ok"
            THEN with_lock("stats", <<Step("count", "processed_count")>>)
                 \o <<Step("net", "refresh")>>
            ELSE with_lock("stats", <<Step("count", "error_count")>>)

\* Reranker.rerank with the model loaded: predict, then the metrics
rerank_job == with_lock("rerank", <<Step("count", "rerank_call_count")>>)

ThreadPages == {"p1", "p2"}
ThreadBatches == {<< <<"p2", v_2e1>>, <<"p1", v_34>> >>}
Jobs == {"refresh", "remove", "retrieve", "stats", "bootstrap", "rerank",
         "ok", "embed_error", "store_error"}

steps_of(job) ==
    CASE job = "refresh"   -> refresh
      [] job = "remove"    -> remove_job
      [] job = "retrieve"  -> retrieve
      [] job = "stats"     -> stats_job
      [] job = "bootstrap" -> bootstrap_job
      [] job = "rerank"    -> rerank_job
      [] OTHER             -> process_message(job)

NoThread == [job |-> "none", todo |-> <<>>, page_id |-> None, k |-> 0,
             items |-> <<>>, planned |-> FALSE, plan |-> <<>>,
             hits |-> <<>>, seen |-> <<>>, ret |-> <<>>]
NoThreads == [t \in Threads |-> NoThread]

\* The four stores "self.index = ...; self.id_map = ...; self.reverse_map =
\* ...; self.next_id = ..." that take the index from s to new
assign(s, new) ==
    <<[s EXCEPT !.index = new.index],
      [s EXCEPT !.index = new.index, !.id_map = new.id_map],
      [new EXCEPT !.next_id = s.next_id],
      new>>

\* The states the index goes through in add_vector under the lock: for an
\* indexed page_id the two dels and the stores of the rebuilt index, then
\* index.add and the stores into id_map, reverse_map and next_id
add_vector_stores(s, page_id, vec_np) ==
    LET dropped == IF page_id \in DOMAIN s.reverse_map
                   THEN LET a == [s EXCEPT !.id_map = Del(s.id_map, s.reverse_map[page_id])]
                            b == [a EXCEPT !.reverse_map = Del(s.reverse_map, page_id)]
                        IN  <<a, b>> \o assign(b, drop_existing(s, page_id))
                   ELSE <<>>
        s1 == IF dropped = <<>> THEN s ELSE dropped[Len(dropped)]
    IN  dropped \o assign(s1, add_vector(s, page_id, vec_np))

\* The states the index goes through in the write a thread is at
stores(th, s) ==
    CASE th.todo[1].arg = "add_vector" -> add_vector_stores(s, th.page_id, normalize_L2(v_34))
      [] th.todo[1].arg = "remove_vector" ->
            IF th.page_id \in DOMAIN s.reverse_map
            THEN assign(s, remove_vector(s, th.page_id))
            ELSE <<>>
      [] th.todo[1].arg = "clear" -> assign(s, clear(s))
      [] OTHER -> assign(s, bulk_add(s, th.items))

StatsTotal == stats.processed_count + stats.error_count
Counting == Cardinality({t \in Threads : threads[t].job \in {"ok", "embed_error", "store_error"}})

thFrame == <<last, pre, svcVars, log, flags, wk, outcome, stored, refreshed, ecVars>>

\* A thread takes up a job
Start(t, job, p, k, items) ==
    /\ threads[t].job = "none"
    /\ job \in {"ok", "embed_error", "store_error"} => StatsTotal + Counting < MaxLog
    /\ threads' = [threads EXCEPT ![t] = [NoThread EXCEPT !.job = job, !.todo = steps_of(job),
                                                          !.page_id = p, !.k = k, !.items = items]]
    /\ UNCHANGED <<idxVars, stats, lock, thFrame>>

\* A network call: the embedding request, an upstream read or write, or the
\* /refresh notification
Net(t) ==
    /\ threads[t].todo # <<>> /\ threads[t].todo[1].do = "net"
    /\ threads' = [threads EXCEPT ![t].todo = Tail(@)]
    /\ UNCHANGED <<idxVars, stats, lock, thFrame>>

\* "with lock:" is entered
Acquire(t) ==
    /\ threads[t].todo # <<>> /\ threads[t].todo[1].do = "acquire"
    /\ ~locked(lock[threads[t].todo[1].arg])
    /\ lock' = [lock EXCEPT ![threads[t].todo[1].arg] = t]
    /\ threads' = [threads EXCEPT ![t].todo = Tail(@)]
    /\ UNCHANGED <<idxVars, stats, thFrame>>

\* "with lock:" is left
Release(t) ==
    /\ threads[t].todo # <<>> /\ threads[t].todo[1].do = "release"
    /\ lock' = [lock EXCEPT ![threads[t].todo[1].arg] = None]
    /\ threads' = [threads EXCEPT ![t].todo = Tail(@)]
    /\ UNCHANGED <<idxVars, stats, thFrame>>

\* The next store of add_vector, remove_vector, clear or bulk_add
Write(t) ==
    /\ threads[t].todo # <<>> /\ threads[t].todo[1].do = "write"
    /\ LET th == threads[t]
           p  == IF th.planned THEN th.plan ELSE stores(th, IndexState)
       IN  IF p = <<>>
           THEN /\ UNCHANGED idxVars
                /\ threads' = [threads EXCEPT ![t].todo = Tail(@)]
           ELSE /\ SetIndex(Head(p))
                /\ threads' = [threads EXCEPT
                                  ![t].plan = Tail(p),
                                  ![t].planned = Tail(p) # <<>>,
                                  ![t].todo = IF Tail(p) = <<>> THEN Tail(@) ELSE @]
    /\ UNCHANGED <<stats, lock, thFrame>>

\* What a reader sees at one read: the index, and the threads that are
\* between the first and the last store of a write
Seen(t) == [s |-> IndexState, writers |-> {u \in Threads \ {t} : threads[u].planned}]

\* search: index.ntotal and index.search
Scan(t) ==
    /\ threads[t].todo # <<>> /\ threads[t].todo[1].do = "scan"
    /\ IF Len(index) = 0
       THEN threads' = [threads EXCEPT ![t].seen = Append(@, Seen(t)),
                                       ![t].todo = SubSeq(@, 3, Len(@))]
       ELSE \E r \in faiss_search(index, normalize_L2(v_2e1), Min(threads[t].k, Len(index))) :
               threads' = [threads EXCEPT ![t].seen = Append(@, Seen(t)),
                                          ![t].hits = r,
                                          ![t].todo = Tail(@)]
    /\ UNCHANGED <<idxVars, stats, lock, thFrame>>

\* search: the loop that turns slots into page ids through id_map
MapIds(t) ==
    /\ threads[t].todo # <<>> /\ threads[t].todo[1].do = "map"
    /\ LET found == SelectSeq(threads[t].hits, LAMBDA e : e[1] \in DOMAIN id_map)
       IN  threads' = [threads EXCEPT
                         ![t].seen = Append(@, Seen(t)),
                         ![t].ret = [n \in 1..Len(found) |-> <<id_map[found[n][1]], found[n][2]>>],
                         ![t].todo = Tail(@)]
    /\ UNCHANGED <<idxVars, stats, lock, thFrame>>

\* get_stats: index.ntotal and len(id_map)
ReadStats(t) ==
    /\ threads[t].todo # <<>> /\ threads[t].todo[1].do = "read"
    /\ threads' = [threads EXCEPT ![t].seen = Append(@, Seen(t)),
                                  ![t].ret = get_stats(IndexState),
                                  ![t].todo = Tail(@)]
    /\ UNCHANGED <<idxVars, stats, lock, thFrame>>

\* An update of the worker's stats or of the reranker's metrics
Count(t) ==
    /\ threads[t].todo # <<>> /\ threads[t].todo[1].do = "count"
    /\ threads' = [threads EXCEPT ![t].todo = Tail(@)]
    /\ stats' = CASE threads[t].todo[1].arg = "processed_count" ->
                        [stats EXCEPT !.processed_count = @ + 1]
                  [] threads[t].todo[1].arg = "error_count" ->
                        [stats EXCEPT !.error_count = @ + 1]
                  [] OTHER -> stats
    /\ UNCHANGED <<idxVars, lock, thFrame>>

\* The job returns
Return(t) ==
    /\ threads[t].job # "none" /\ threads[t].todo = <<>>
    /\ threads' = [threads EXCEPT ![t] = NoThread]
    /\ UNCHANGED <<idxVars, stats, lock, thFrame>>

-----------------------------------------------------------------------------
(* The embedding client (memory_rag/embed_client.py).  embed_text is a      *)
(* coroutine: it runs without interruption up to "await client.post" and    *)
(* again from the response to its return.                                   *)

MAX_CACHE_SIZE == 1000
MaxEmbeds == 3

\* A text is given by its cache key, hashlib.md5(text).hexdigest(); distinct
\* texts of the model have distinct keys.  The dict is the sequence of its
\* items in insertion order, written in runs: Run(lo, hi, vec) stands for the
\* items (lo, vec), (lo + 1, vec), ..., (hi, vec).  Filled(n) is a cache that
\* requests for the keys 1..n have filled.
Texts == {1, 2, MAX_CACHE_SIZE + 1, MAX_CACHE_SIZE + 2}
Run(lo, hi, vec) == [lo |-> lo, hi |-> hi, vec |-> vec]
Filled(n) == IF n = 0 THEN <<>> ELSE <<Run(1, n, v_34)>>
Tasks == {"a", "b"}
NoEmbed == [pc |-> "idle", key |-> 0, ret |-> v_zero, hit |-> FALSE, posts |-> 0]
NoTasks == [t \in Tasks |-> NoEmbed]

\* len(CACHE)
RECURSIVE cache_len(_)
cache_len(cache) ==
    IF cache = <<>> THEN 0
    ELSE (Head(cache).hi - Head(cache).lo + 1) + cache_len(Tail(cache))

\* "key in CACHE" and CACHE[key]
run_of(cache, key) == CHOOSE i \in 1..Len(cache) : cache[i].lo <= key /\ key <= cache[i].hi
cached(cache, key) == \E i \in 1..Len(cache) : cache[i].lo <= key /\ key <= cache[i].hi
cache_get(cache, key) == cache[run_of(cache, key)].vec

\* CACHE.pop(next(iter(CACHE))): the oldest item goes
pop_first(cache) ==
    IF Head(cache).lo = Head(cache).hi THEN Tail(cache)
    ELSE <<[Head(cache) EXCEPT !.lo = @ + 1]>> \o Tail(cache)

\* (mutant) nothing is removed from a full cache
evict_none(cache) == cache

\* "if len(CACHE) >= MAX_CACHE_SIZE: CACHE.pop(next(iter(CACHE)))"
evict(cache) == IF cache_len(cache) >= MAX_CACHE_SIZE THEN pop_first(cache) ELSE cache

\* CACHE[key] = embedding: a key that is present keeps its place
cache_set(cache, key, embedding) ==
    IF cached(cache, key)
    THEN LET i == run_of(cache, key)
             r == cache[i]
         IN  IF r.vec = embedding THEN cache
             ELSE SubSeq(cache, 1, i - 1)
                  \o (IF r.lo < key THEN <<Run(r.lo, key - 1, r.vec)>> ELSE <<>>)
                  \o <<Run(key, key, embedding)>>
                  \o (IF key < r.hi THEN <<Run(key + 1, r.hi, r.vec)>> ELSE <<>>)
                  \o SubSeq(cache, i + 1, Len(cache))
    ELSE Append(cache, Run(key, key, embedding))

EmbedsMade == tasks["a"].posts + tasks["b"].posts
ecFrame == <<idxVars, last, pre, svcVars, wkVars, thVars>>

\* embed_text(text) up to the request: a hit returns the cached embedding
EmbedCall(t, key) ==
    /\ tasks[t].pc = "idle"
    /\ EmbedsMade < MaxEmbeds
    /\ tasks' = [tasks EXCEPT ![t] =
                   IF cached(CACHE, key)
                   THEN [NoEmbed EXCEPT !.pc = "done", !.key = key, !.hit = TRUE,
                                        !.ret = cache_get(CACHE, key),
                                        !.posts = tasks[t].posts]
                   ELSE [NoEmbed EXCEPT !.pc = "post", !.key = key,
                                        !.posts = tasks[t].posts + 1]]
    /\ UNCHANGED <<CACHE, ecFrame>>

\* embed_text from the response on: an embedding is cached and returned; a
\* response without one, an error status or a transport error returns zeros
EmbedResponse(t, resp, embedding) ==
    /\ tasks[t].pc = "post"
    /\ IF resp = "ok"
       THEN /\ CACHE' = cache_set(evict(CACHE), tasks[t].key, embedding)
            /\ tasks' = [tasks EXCEPT ![t].pc = "done", ![t].ret = embedding]
       ELSE /\ UNCHANGED CACHE
            /\ tasks' = [tasks EXCEPT ![t].pc = "done", ![t].ret = v_zero]
    /\ UNCHANGED ecFrame

\* the caller has the result
EmbedReturn(t) ==
    /\ tasks[t].pc = "done"
    /\ tasks' = [tasks EXCEPT ![t] = [NoEmbed EXCEPT !.posts = tasks[t].posts]]
    /\ UNCHANGED <<CACHE, ecFrame>>

\* clear_cache()
ClearCache ==
    /\ CACHE # <<>>
    /\ CACHE' = <<>>
    /\ UNCHANGED <<tasks, ecFrame>>

-----------------------------------------------------------------------------
(* The passage extractor (memory_rag/slice_logic.py).  A text is the list   *)
(* of the sentences that re.split(r'(?<=[.!?])\s+') makes of it, a sentence *)
(* the list of its words; the empty text is <<>> and a text of whitespace   *)
(* only is one sentence without words.  A quote is the list of its words.   *)

MAX_WORDS == 40
MaxSentences == 3

\* n times the word w, then the word last
Words(n, w, final) == [i \in 1..(n + 1) |-> IF i = n + 1 THEN final ELSE w]

\* Sentences of 2 words, of 2 words one of which is punctuation only, of more
\* than MAX_WORDS / 2 words and of more than MAX_WORDS words
Sentences ==
    {<<"a", "b">>, <<"--", "c">>, Words(MAX_WORDS \div 2 + 2, "c", "b"),
     Words(MAX_WORDS + 2, "b", "a")}
Bodies ==
    {<< <<>> >>} \cup UNION {[1..n -> Sentences] : n \in 0..MaxSentences}

\* Queries: the empty string, punctuation only, and words
Query(text_empty, tokens) == [empty |-> text_empty, tokens |-> tokens]
Queries ==
    {Query(TRUE, {}), Query(FALSE, {}), Query(FALSE, {"a"}),
     Query(FALSE, {"a", "z"}), Query(FALSE, {"z"})}

\* set(re.sub(r'[^\w\s]', '', s.lower()).split())
tokens_of(words) == {words[i] : i \in 1..Len(words)} \ {"--"}

\* text.split(), and " ".join(sentences[a:b]).split()
RECURSIVE split(_)
split(sentences) ==
    IF sentences = <<>> THEN <<>> ELSE Head(sentences) \o split(Tail(sentences))

\* (mutant) the words are not cut
cut_none(words, max_words) == words

\* words[:max_words]
cut(words, max_words) == SubSeq(words, 1, Min(max_words, Len(words)))

\* the sentences that share a token with the query
scored_sentences(query, sentences) ==
    {i \in 1..Len(sentences) : query.tokens \cap tokens_of(sentences[i]) # {}}

\* best_quote; best is the place of the sentence whose combined score, of
\* token overlap and SequenceMatcher ratio, is the highest
best_quote(query, text, max_words, best) ==
    IF text = <<>> THEN <<>>
    ELSE IF Len(text) <= 1 THEN cut(split(text), max_words)
    ELSE IF scored_sentences(query, text) = {} THEN cut(text[1], max_words)
    ELSE LET best_sentence == text[best]
             best_idx  == CHOOSE i \in 1..Len(text) :
                             /\ text[i] = best_sentence
                             /\ \A j \in 1..(i - 1) : text[j] # best_sentence
             start_idx == IF best_idx - 1 < 1 THEN 1 ELSE best_idx - 1
             end_idx   == Min(Len(text), best_idx + 1)
         IN  IF 2 * Len(best_sentence) < max_words
             THEN cut(split(SubSeq(text, start_idx, end_idx)), max_words)
             ELSE cut(best_sentence, max_words)

\* A score, as a fraction
Ratio(num, den) == [num |-> num, den |-> den]

\* find_passage_containing_query
find_passage_containing_query(text, query, max_words, best) ==
    LET passage == best_quote(query, text, max_words, best)
        common  == query.tokens \cap tokens_of(passage)
    IN  [passage |-> passage,
         score   |-> IF query.tokens # {}
                     THEN Ratio(Cardinality(common), Cardinality(query.tokens))
                     ELSE Ratio(1, 10)]

\* tokenize_text: re.findall(r'\S+', text)
tokenize_text(words) == words

\* extract_relevant_quotes(text, query)
extract_relevant_quotes(text, query, best) ==
    IF text = <<>> \/ query.empty THEN <<>>
    ELSE LET found == find_passage_containing_query(text, query, MAX_WORDS, best)
         IN  IF found.passage # <<>>
             THEN <<[quote |-> found.passage, score |-> found.score,
                     word_count |-> Len(tokenize_text(found.passage))]>>
             ELSE LET fallback_tokens == cut(tokenize_text(split(text)), MAX_WORDS)
                  IN  <<[quote |-> fallback_tokens, score |-> Ratio(1, 10),
                         word_count |-> Len(fallback_tokens)]>>

\* The arguments of a call extract_relevant_quotes(text, query)
QuoteCall(text, query) ==
    [NoCall EXCEPT !.op = "quote_call", !.items = <<text, query>>]

\* extract_relevant_quotes(text, query) returns
ExtractQuotes(best) ==
    /\ last.op = "quote_call"
    /\ LET text == last.items[1]
           query == last.items[2]
       IN  /\ IF Len(text) > 1 /\ scored_sentences(query, text) # {}
              THEN best \in scored_sentences(query, text)
              ELSE best = 1
           /\ last' = [last EXCEPT !.op = "quote",
                                   !.ret = extract_relevant_quotes(text, query, best)]
    /\ UNCHANGED <<idxVars, pre, svcVars, wkVars, thVars, ecVars>>

-----------------------------------------------------------------------------
(* Specifications *)

\* Spec: any sequence of calls on one VectorIndex
Init ==
    /\ index = <<>>
    /\ id_map = EmptyMap
    /\ reverse_map = EmptyMap
    /\ next_id = 0
    /\ last = NoCall
    /\ pre = EmptyIndex
    /\ boot = NoTask
    /\ req = NoReq
    /\ log = <<>>
    /\ flags = [dry_run |-> FALSE, refresh |-> FALSE]
    /\ wk = WkStart
    /\ stats = [processed_count |-> 0, error_count |-> 0]
    /\ outcome = NoOutcome
    /\ stored = NoWrites
    /\ refreshed = NoWrites
    /\ lock = NoLocks
    /\ threads = NoThreads
    /\ CACHE = <<>>
    /\ tasks = NoTasks

Next ==
    \/ \E p \in PageIds, v \in InputVectors : Add(p, v)
    \/ \E p \in PageIds, v \in RefreshVectors : Refresh(p, v)
    \/ \E p \in PageIds : Remove(p)
    \/ Clear
    \/ \E items \in BulkItems : BulkAdd(items)
    \/ \E q \in SearchQueries, k \in 1..MaxK : Search(q, k)
    \/ GetStats

Spec == Init /\ [][Next]_vars

\* SvcSpec: the retrieval service with its bootstrap task, refreshes and searches
SvcPages == {"p1", "p2"}
SvcVectors == {v_34, v_short}

\* The service starts empty; startup_event creates the first bootstrap task,
\* which runs to its first await (clear() of the empty index, then the first
\* request of the scan) before any request is served.
SvcInit ==
    /\ index = <<>>
    /\ id_map = EmptyMap
    /\ reverse_map = EmptyMap
    /\ next_id = 0
    /\ last = NoCall
    /\ pre = EmptyIndex
    /\ boot = [NoTask EXCEPT !.pc = "fetch", !.runs = 1]
    /\ req = NoReq
    /\ log = <<>>
    /\ flags = [dry_run |-> FALSE, refresh |-> FALSE]
    /\ wk = WkStart
    /\ stats = [processed_count |-> 0, error_count |-> 0]
    /\ outcome = NoOutcome
    /\ stored = NoWrites
    /\ refreshed = NoWrites
    /\ lock = NoLocks
    /\ threads = NoThreads
    /\ CACHE = <<>>
    /\ tasks = NoTasks

SvcNext ==
    \/ StartBootstrap
    \/ BootClear
    \/ \E o \in {"ok", "status", "raise"} : BootFetch(o)
    \/ \E p \in SvcPages, v \in SvcVectors : Refresh(p, v)
    \/ \E k \in {1, MaxK} : RetrieveSearch(v_2e1, k)
    \/ Health
    \/ \E items \in BulkRefreshBodies : BulkRefresh(items)

SvcSpec == SvcInit /\ [][SvcNext]_vars

\* SvcLiveSpec: bootstrap tasks and refreshes; the event loop runs the
\* bootstrap task, and every request of the scan (timeout=10.0) is answered
\* or raises
SvcLiveNext ==
    \/ StartBootstrap
    \/ BootClear
    \/ \E o \in {"ok", "status", "raise"} : BootFetch(o)
    \/ \E p \in SvcPages, v \in SvcVectors : Refresh(p, v)

SvcLiveSpec ==
    /\ SvcInit
    /\ [][SvcLiveNext]_vars
    /\ WF_vars(BootClear)
    /\ WF_vars(\E o \in {"ok", "status", "raise"} : BootFetch(o))

\* WorkerSpec: the ingest worker consuming one partition
WorkerInit ==
    /\ index = <<>>
    /\ id_map = EmptyMap
    /\ reverse_map = EmptyMap
    /\ next_id = 0
    /\ last = NoCall
    /\ pre = EmptyIndex
    /\ boot = NoTask
    /\ req = NoReq
    /\ log \in Logs
    /\ flags \in [dry_run : BOOLEAN, refresh : BOOLEAN]
    /\ wk = WkStart
    /\ stats = [processed_count |-> 0, error_count |-> 0]
    /\ outcome = NoOutcome
    /\ stored = NoWrites
    /\ refreshed = NoWrites
    /\ lock = NoLocks
    /\ threads = NoThreads
    /\ CACHE = <<>>
    /\ tasks = NoTasks

WorkerNext ==
    \/ Poll
    \/ \E r \in {"ok", "wrongdim", "empty", "fail"} : EmbedAttempt(r)
    \/ \E r \in StoreResults : StoreAttempt(r)
    \/ \E r \in {"ok", "fail"} : Notify(r)
    \/ Commit
    \/ Crash
    \/ Reconnect

WorkerSpec == WorkerInit /\ [][WorkerNext]_vars

\* WorkerLiveSpec: the worker with /refresh notifications on, over partitions
\* of events that are embedded and of values that are not JSON;
\* time.sleep(5) in consume_forever returns
LiveLogs == UNION {[1..n -> {Event("c", "p1", "text"), BadJson}] : n \in 0..MaxLog}

WorkerLiveInit ==
    /\ index = <<>>
    /\ id_map = EmptyMap
    /\ reverse_map = EmptyMap
    /\ next_id = 0
    /\ last = NoCall
    /\ pre = EmptyIndex
    /\ boot = NoTask
    /\ req = NoReq
    /\ log \in LiveLogs
    /\ flags = [dry_run |-> FALSE, refresh |-> TRUE]
    /\ wk = WkStart
    /\ stats = [processed_count |-> 0, error_count |-> 0]
    /\ outcome = NoOutcome
    /\ stored = NoWrites
    /\ refreshed = NoWrites
    /\ lock = NoLocks
    /\ threads = NoThreads
    /\ CACHE = <<>>
    /\ tasks = NoTasks

WorkerLiveSpec == WorkerLiveInit /\ [][WorkerNext]_vars /\ WF_vars(Reconnect)

\* QuerySpec: GET /retrieve requests served while pages are refreshed
QueryPages == {"p1", "p2", "p3"}
\* the vector the worker refreshes each page with
QueryRow(p) == IF p = "p2" THEN v_34 ELSE v_2e1

QueryInit ==
    /\ index = <<>>
    /\ id_map = EmptyMap
    /\ reverse_map = EmptyMap
    /\ next_id = 0
    /\ last = NoCall
    /\ pre = EmptyIndex
    /\ boot = NoTask
    /\ req = NoReq
    /\ log = <<>>
    /\ flags = [dry_run |-> FALSE, refresh |-> FALSE]
    /\ wk = WkStart
    /\ stats = [processed_count |-> 0, error_count |-> 0]
    /\ outcome = NoOutcome
    /\ stored = NoWrites
    /\ refreshed = NoWrites
    /\ lock = NoLocks
    /\ threads = NoThreads
    /\ CACHE = <<>>
    /\ tasks = NoTasks

QueryNext ==
    \/ \E p \in QueryPages : Refresh(p, QueryRow(p))
    \/ \E qlen \in QueryLengths, kparam \in KParams : RetrieveRequest(qlen, kparam)
    \/ \E r \in {"ok", "transport", "status", "wrongdim", "empty"} : RetrieveEmbed(r)
    \/ \E r \in {"body", "404", "error", "noquote"}, sc \in QuoteScores :
          RetrieveFetch(r, sc)

QuerySpec == QueryInit /\ [][QueryNext]_vars

\* RerankSpec: calls of the reranker in each of its modes
RerankInit ==
    /\ index = <<>>
    /\ id_map = EmptyMap
    /\ reverse_map = EmptyMap
    /\ next_id = 0
    /\ \E mode \in {"disabled", "uninitialized", "error", "model"},
          scores \in Candidates, top_k \in TopKs :
          last = RerankCall(mode, scores, top_k)
    /\ pre = EmptyIndex
    /\ boot = NoTask
    /\ req = NoReq
    /\ log = <<>>
    /\ flags = [dry_run |-> FALSE, refresh |-> FALSE]
    /\ wk = WkStart
    /\ stats = [processed_count |-> 0, error_count |-> 0]
    /\ outcome = NoOutcome
    /\ stored = NoWrites
    /\ refreshed = NoWrites
    /\ lock = NoLocks
    /\ threads = NoThreads
    /\ CACHE = <<>>
    /\ tasks = NoTasks

RerankNext ==
    \E cross_scores \in [1..Len(last.items) -> CrossScores] : Rerank(cross_scores)

RerankSpec == RerankInit /\ [][RerankNext]_vars

\* ThreadSpec: threads that run handlers of the retrieval service, calls on
\* the index, the worker's process_message and the reranker, in any interleaving
ThreadInit ==
    /\ index = <<>>
    /\ id_map = EmptyMap
    /\ reverse_map = EmptyMap
    /\ next_id = 0
    /\ last = NoCall
    /\ pre = EmptyIndex
    /\ boot = NoTask
    /\ req = NoReq
    /\ log = <<>>
    /\ flags = [dry_run |-> FALSE, refresh |-> TRUE]
    /\ wk = WkStart
    /\ stats = [processed_count |-> 0, error_count |-> 0]
    /\ outcome = NoOutcome
    /\ stored = NoWrites
    /\ refreshed = NoWrites
    /\ lock = NoLocks
    /\ threads = NoThreads
    /\ CACHE = <<>>
    /\ tasks = NoTasks

ThreadNext ==
    \E t \in Threads :
       \/ \E job \in Jobs \ {"refresh", "remove", "retrieve", "bootstrap"} :
             Start(t, job, None, 0, <<>>)
       \/ \E p \in ThreadPages : Start(t, "refresh", p, 0, <<>>)
       \/ \E p \in ThreadPages : Start(t, "remove", p, 0, <<>>)
       \/ Start(t, "retrieve", None, MaxK, <<>>)
       \/ \E items \in ThreadBatches : Start(t, "bootstrap", None, 0, items)
       \/ Net(t)
       \/ Acquire(t)
       \/ Release(t)
       \/ Write(t)
       \/ Scan(t)
       \/ MapIds(t)
       \/ ReadStats(t)
       \/ Count(t)
       \/ Return(t)

ThreadSpec == ThreadInit /\ [][ThreadNext]_vars

\* CacheSpec: embed_text coroutines over a cache that is empty, one short of
\* full, or full
CacheInit ==
    /\ index = <<>>
    /\ id_map = EmptyMap
    /\ reverse_map = EmptyMap
    /\ next_id = 0
    /\ last = NoCall
    /\ pre = EmptyIndex
    /\ boot = NoTask
    /\ req = NoReq
    /\ log = <<>>
    /\ flags = [dry_run |-> FALSE, refresh |-> FALSE]
    /\ wk = WkStart
    /\ stats = [processed_count |-> 0, error_count |-> 0]
    /\ outcome = NoOutcome
    /\ stored = NoWrites
    /\ refreshed = NoWrites
    /\ lock = NoLocks
    /\ threads = NoThreads
    /\ CACHE \in {<<>>, Filled(MAX_CACHE_SIZE - 1), Filled(MAX_CACHE_SIZE)}
    /\ tasks = NoTasks

CacheNext ==
    \/ \E t \in Tasks, key \in Texts : EmbedCall(t, key)
    \/ \E t \in Tasks, resp \in {"ok", "empty", "status", "transport"},
          embedding \in {v_2e1, v_34} : EmbedResponse(t, resp, embedding)
    \/ \E t \in Tasks : EmbedReturn(t)
    \/ ClearCache

CacheSpec == CacheInit /\ [][CacheNext]_vars

\* QuoteSpec: calls of the passage extractor
QuoteInit ==
    /\ index = <<>>
    /\ id_map = EmptyMap
    /\ reverse_map = EmptyMap
    /\ next_id = 0
    /\ \E text \in Bodies, query \in Queries : last = QuoteCall(text, query)
    /\ pre = EmptyIndex
    /\ boot = NoTask
    /\ req = NoReq
    /\ log = <<>>
    /\ flags = [dry_run |-> FALSE, refresh |-> FALSE]
    /\ wk = WkStart
    /\ stats = [processed_count |-> 0, error_count |-> 0]
    /\ outcome = NoOutcome
    /\ stored = NoWrites
    /\ refreshed = NoWrites
    /\ lock = NoLocks
    /\ threads = NoThreads
    /\ CACHE = <<>>
    /\ tasks = NoTasks

QuoteNext == \E best \in 1..MaxSentences : ExtractQuotes(best)

QuoteSpec == QuoteInit /\ [][QuoteNext]_vars

-----------------------------------------------------------------------------
(* Properties *)

One == Unit * Unit          \* the score 1.0

\* the last call was an add_vector or a POST /refresh that was carried out
Added == last.op \in {"add", "refresh"} /\ last.result \in {"ok", "202"}
\* ... for a page that was indexed before it / that was not
Updated == Added /\ last.page_id \in DOMAIN pre.reverse_map
Appended == Added /\ last.page_id \notin DOMAIN pre.reverse_map

\* the slots holding page p
SlotsOf(p) == {i \in DOMAIN id_map : id_map[i] = p}

\* C1 (as claimed): once the offset of an event that process_message embeds
\* is committed, the embedding call and the upstream write of that event have
\* succeeded (a dry run counts as a successful write).
C1_CommitOnlyAfterSuccess ==
    (/\ wk.cur > 0
     /\ wk.committed = wk.cur + 1
     /\ triage(log[wk.cur]) = "embed")
    => /\ outcome.embed \in {"ok", "wrongdim", "empty"}
       /\ outcome.store \in {"ok", "dry"}

\* C2: id_map and reverse_map are inverse bijections between the slots
\* 0..ntotal-1 and the indexed page ids, and the number of rows, the sizes of
\* both maps and total_vectors / unique_page_ids of get_stats all agree.
C2_MapsInverse ==
    /\ DOMAIN id_map = 0..(Len(index) - 1)
    /\ \A i \in DOMAIN id_map :
          id_map[i] \in DOMAIN reverse_map /\ reverse_map[id_map[i]] = i
    /\ \A p \in DOMAIN reverse_map :
          reverse_map[p] \in DOMAIN id_map /\ id_map[reverse_map[p]] = p
    /\ Cardinality(DOMAIN id_map) = Len(index)
    /\ Cardinality(DOMAIN reverse_map) = Len(index)
    /\ get_stats(IndexState).total_vectors = Cardinality(DOMAIN reverse_map)
    /\ get_stats(IndexState).unique_page_ids = Len(index)

\* C2 witness: a page among three was just updated, or one of three removed
C2_Witness ==
    \/ Updated /\ Len(pre.index) = 3 /\ Len(index) = 3
    \/ last.op = "remove" /\ last.result = "True" /\ Len(pre.index) = 3

\* C3 (as claimed): when a bootstrap that nobody else's write interfered
\* with is done, what the last search running during it found in the index is
\* the index as it was before the bootstrap or as it is after it.
C3_SearchSeesOldOrNew ==
    (boot.pc = "done" /\ ~boot.other_writes /\ boot.seen # NotSeen)
    => boot.seen \in {boot.pre, boot.post}

\* C4 (as claimed): when the loader ends without having obtained any row
\* (the first response was an error status, or the request raised) and nobody
\* else wrote the index meanwhile, the index is as it was when it started.
C4_TotalFailureKeepsIndex ==
    (boot.pc \in {"done", "failed"} /\ ~boot.got_rows /\ ~boot.other_writes)
    => boot.post = boot.pre

\* C5 (as claimed): after Add(p, v2) on an index holding p, the count is what
\* it was, p has exactly one slot, and that slot holds normalized v2.
C5_AddReplaces ==
    Updated
    => /\ Len(index) = Len(pre.index)
       /\ Cardinality(SlotsOf(last.page_id)) = 1
       /\ \A i \in SlotsOf(last.page_id) : index[i + 1] = normalize_L2(last.vector)

\* C6 (as claimed): Add(p, v) of an indexed page leaves p and every other
\* page in the slot it had; Add of a new page puts it in the next free slot.
C6_SameSlot ==
    /\ Updated =>
          \A q \in DOMAIN pre.reverse_map :
              q \in DOMAIN reverse_map /\ reverse_map[q] = pre.reverse_map[q]
    /\ Appended => reverse_map[last.page_id] = Len(pre.index)

\* C6 (amended): Add(p, v) of an indexed page puts p in the last slot, after
\* the pages that are kept, which are renumbered from 0 in their previous
\* relative order; Add of a new page puts it in the next free slot and leaves
\* every other page in its slot.
C6_UpdateMovesToEnd ==
    /\ Updated =>
          /\ reverse_map[last.page_id] = Len(index) - 1
          /\ DOMAIN reverse_map \subseteq DOMAIN pre.reverse_map
          /\ \A q1, q2 \in DOMAIN reverse_map \ {last.page_id} :
                pre.reverse_map[q1] < pre.reverse_map[q2]
                    => reverse_map[q1] < reverse_map[q2]
    /\ Appended =>
          /\ reverse_map[last.page_id] = Len(pre.index)
          /\ \A q \in DOMAIN pre.reverse_map :
                q \in DOMAIN reverse_map /\ reverse_map[q] = pre.reverse_map[q]

\* C6 witness: the page in slot 0 of three was updated and is now in slot 2
C6_Witness ==
    /\ Updated
    /\ Len(pre.index) = 3
    /\ pre.reverse_map[last.page_id] = 0
    /\ reverse_map[last.page_id] = 2

\* what search(v, 1) can return right after the last call
HitsNow == search(IndexState, last.vector, 1)

\* C7 (as claimed, for the vectors that have a direction): after Add(p, v),
\* Search(v, 1) returns page p with score 1.
C7_SearchFindsAddedPage ==
    (Added /\ IsFinite(last.vector) /\ NormSq(last.vector) > 0)
    => \A hits \in HitsNow : hits = << <<last.page_id, One>> >>

\* C7 (amended): after Add(p, v), Search(v, 1) returns, for a finite v that
\* is not all-zero, one hit with score 1: the page in the lowest slot whose
\* row is normalized v (p, unless an earlier slot holds an equal row); for
\* the all-zero v one hit with score 0; for a v with a NaN or infinite
\* component, nothing.
C7_SearchFindsEqualRow ==
    Added =>
      \A hits \in HitsNow :
        IF ~IsFinite(last.vector) THEN hits = <<>>
        ELSE /\ Len(hits) = 1
             /\ hits[1][1] \in DOMAIN reverse_map
             /\ LET slot == reverse_map[hits[1][1]]
                IN  IF NormSq(last.vector) = 0
                    THEN hits[1][2] = 0
                    ELSE /\ hits[1][2] = One
                         /\ index[slot + 1] = normalize_L2(last.vector)
                         /\ slot <= reverse_map[last.page_id]
                         /\ \A i \in 0..(slot - 1) :
                               index[i + 1] # normalize_L2(last.vector)

\* C7 witness: the vector just added is found, with score 1, on another page
C7_Witness ==
    /\ Added
    /\ IsFinite(last.vector) /\ NormSq(last.vector) > 0
    /\ \E hits \in HitsNow : hits[1][1] # last.page_id /\ hits[1][2] = One

\* C8 (as claimed): every row of the index has L2 norm 1.
C8_RowsNormalized ==
    \A i \in 1..Len(index) : IsFinite(index[i]) /\ NormSq(index[i]) = One

\* C9 (as claimed): Add or POST /refresh of a vector that has not 768
\* components, or has a NaN or infinite one, fails and leaves the index as it was.
C9_BadVectorRejected ==
    (last.op \in {"add", "refresh"} /\ (last.vector.len # DIM \/ ~IsFinite(last.vector)))
    => last.result \in {"ValueError", "422"} /\ IndexState = pre

\* C10 (as claimed): Search(q, k) of a finite query over n rows returns
\* min(k, n) hits, on distinct pages, with non-increasing scores (none on the
\* empty index).
C10_SearchShape ==
    (last.op = "search" /\ last.result = "ok" /\ IsFinite(last.vector))
    => LET hits == last.ret
       IN  /\ Len(hits) = Min(last.k, Len(index))
           /\ \A a, b \in 1..Len(hits) : a # b => hits[a][1] # hits[b][1]
           /\ \A a \in 1..(Len(hits) - 1) : hits[a][2] >= hits[a + 1][2]

\* C11 (as claimed, for finite rows and a finite query): search(q, k) returns
\* the min(k, n) rows with the highest inner product with the normalized
\* query, by non-increasing score, rows of equal score by ascending slot.
C11_TiesBySlot ==
    (/\ last.op = "search" /\ last.result = "ok"
     /\ IsFinite(last.vector)
     /\ \A i \in 1..Len(index) : IsFinite(index[i]))
    => LET hits     == last.ret
           q        == normalize_L2(last.vector)
           slot(a)  == reverse_map[hits[a][1]]
           returned == {slot(a) : a \in 1..Len(hits)}
       IN  /\ Len(hits) = Min(last.k, Len(index))
           /\ \A a \in 1..Len(hits) :
                 hits[a][2] = inner_product(index[slot(a) + 1], q)
           /\ \A i \in (DOMAIN id_map) \ returned : \A a \in 1..Len(hits) :
                 inner_product(index[i + 1], q) <= hits[a][2]
           /\ \A a \in 1..(Len(hits) - 1) :
                 \/ hits[a][2] > hits[a + 1][2]
                 \/ hits[a][2] = hits[a + 1][2] /\ slot(a) < slot(a + 1)

\* C12 (as claimed): remove_vector(p) of a page that is not indexed returns
\* False and leaves the index as it was; of an indexed page it returns True,
\* no search finds p afterwards, the count is one less than before, and the
\* maps are inverse bijections over the rows (I1, I2, I4).
C12_RemoveOne ==
    /\ (last.op = "remove" /\ last.page_id \notin DOMAIN pre.reverse_map)
       => last.result = "False" /\ IndexState = pre
    /\ (last.op = "remove" /\ last.page_id \in DOMAIN pre.reverse_map)
       => /\ last.result = "True"
          /\ \A q \in ValidVectors, k \in 1..MaxK :
                \A hits \in search(IndexState, q, k) :
                   \A a \in 1..Len(hits) : hits[a][1] # last.page_id
          /\ Len(index) = Len(pre.index) - 1
          /\ C2_MapsInverse

\* C13 (as claimed): after bulk_add(M), for any M (the empty dict included),
\* the indexed page ids are the keys of M, total_vectors is |M|, and the rows
\* are the normalized vectors of M: nothing of the previous contents is left.
C13_BulkReplaces ==
    last.op = "bulk_add"
    => LET M == last.items
       IN  /\ DOMAIN reverse_map = {M[i][1] : i \in 1..Len(M)}
           /\ get_stats(IndexState).total_vectors = Len(M)
           /\ \A i \in 1..Len(M) :
                 index[reverse_map[M[i][1]] + 1] = normalize_L2(M[i][2])

\* C14 (as claimed): an add_vector(p, v) that directly follows an
\* add_vector(p, v) with the same arguments leaves the index (rows, both
\* maps, next_id) exactly as the first one left it.
C14_AddTwiceIsAddOnce ==
    [][(/\ last.op = "add" /\ last.result = "ok"
        /\ last'.op = "add" /\ last'.result = "ok"
        /\ last'.page_id = last.page_id
        /\ last'.vector = last.vector)
       => idxVars' = idxVars]_vars

\* the message process_message has just dealt with
CurMsg == log[wk.cur]
Processed == wk.cur > 0 /\ wk.pc = "commit"

\* C15 (as claimed): when process_message is through with an event that has
\* a page id and a body, an embedding call was made for it if its op is
\* create, update or snapshot ("c", "u", "r"); for an event with another op
\* no embedding call, upstream write or /refresh was made.
C15_UpsertOps ==
    (Processed /\ CurMsg.json)
    => /\ (/\ CurMsg.op \in {"c", "u", "r"}
           /\ Truthy(CurMsg.page_id) /\ Truthy(CurMsg.body))
          => outcome.embed # "none"
       /\ CurMsg.op \notin {"c", "u", "r"} => outcome = NoOutcome

\* C16 (as claimed): for an event whose embedding response had no embedding,
\* or one of a length other than 768, no vector is PUT upstream and no
\* /refresh is POSTed.
C16_BadEmbeddingFails ==
    outcome.embed \in {"wrongdim", "empty"}
    => outcome.store # "ok" /\ outcome.notify # "ok"

\* C17: the step in which the POST /refresh of an event fails (its embedding
\* and upstream write having succeeded) counts no error and takes
\* run_consumer to consumer.commit(msg); and as long as the consumer has not
\* failed since, the event's offset is being committed or is committed.
C17_NotifyFailureCommits ==
    /\ []((/\ outcome.notify = "failed"
           /\ wk.pc # "down" /\ wk.pos = wk.cur + 1)
          => /\ outcome.store = "ok"
             /\ wk.pc = "commit" \/ wk.committed = wk.cur + 1)
    /\ [][(outcome.notify # "failed" /\ outcome'.notify = "failed")
          => /\ wk'.pc = "commit"
             /\ stats'.error_count = stats.error_count
             /\ stats'.processed_count = stats.processed_count]_vars

\* C17 witness: the offset of an event whose /refresh failed is committed
C17_Witness ==
    /\ outcome.notify = "failed"
    /\ outcome.store = "ok"
    /\ wk.pc = "poll"
    /\ wk.committed = wk.cur + 1
    /\ stats.error_count = 0

\* C18: per page, the offsets of the events PUT upstream never go back, nor
\* do the offsets of the events POSTed to /refresh, and an event is POSTed to
\* /refresh only after it was PUT upstream: no write or refresh of a later
\* event for a page comes before those of an earlier event for it.
C18_PerPageOrder ==
    /\ [](\A p \in DOMAIN stored : refreshed[p] <= stored[p])
    /\ [][\A p \in DOMAIN stored :
             /\ stored'[p] >= stored[p]
             /\ refreshed'[p] >= refreshed[p]]_vars

\* C18 witness: two events for page p1 were both written and refreshed, in
\* one run of the consumer
C18_Witness ==
    /\ Len(log) = 2
    /\ log[1].page_id = "p1" /\ log[2].page_id = "p1"
    /\ wk.restarts = 0
    /\ stats.processed_count = 2
    /\ stored["p1"] = 2
    /\ refreshed["p1"] = 2

\* C19 (as claimed): a /retrieve whose embedding call failed (transport error
\* or error status), or returned no embedding or one of a length other than
\* 768, is answered 503 and has made no index search.
C19_EmbedFailureIs503 ==
    (req.pc = "done" /\ req.embed_resp \in {"transport", "status", "wrongdim", "empty"})
    => req.status = 503 /\ req.searches = 0

\* C20 (as claimed): a /retrieve whose q has fewer than 2 characters is
\* answered 400, without an embedding call, an index search or a body fetch.
C20_ShortQueryIs400 ==
    (req.pc = "done" /\ req.qlen < 2)
    => /\ req.status = 400
       /\ req.embed_calls = 0 /\ req.searches = 0 /\ req.fetches = 0

\* k clamped into [1, 10], 4 when omitted
Clamped(kparam) ==
    IF kparam = <<>> THEN 4
    ELSE IF kparam[1] < 1 THEN 1
    ELSE IF kparam[1] > 10 THEN 10
    ELSE kparam[1]

\* C21 (as claimed): a /retrieve with a valid q and any k is served (not
\* rejected) with k clamped into [1, 10], 4 when omitted, and returns at
\* most that many results.
C21_KClamped ==
    (req.pc = "done" /\ req.qlen >= 2)
    => /\ req.status # 422
       /\ req.k = Clamped(req.kparam)
       /\ Len(req.results) <= Clamped(req.kparam)

\* C22 (as claimed): the list a /retrieve returns is in descending order of
\* the score field of its items.
C22_ResultsSorted ==
    (req.pc = "done" /\ req.status = 200)
    => \A a \in 1..(Len(req.results) - 1) :
          req.results[a].score >= req.results[a + 1].score

\* the hits of the request whose body fetch returned a body, in hit order
HitsWithBody ==
    SelectSeq([j \in 1..Len(req.fetched) |-> j],
              LAMBDA j : req.fetched[j] = "body")

\* C23: once /retrieve has hits, whatever the body fetches answer (404
\* included) the request is not aborted: its items so far are one per hit
\* whose body was fetched, in hit order, and when the last hit is dealt with
\* the response is 200.
C23_MissingBodyDropped ==
    req.searches = 1
    => /\ Len(req.results) = Len(HitsWithBody)
       /\ \A a \in 1..Len(HitsWithBody) :
             req.results[a].page_id = req.similar_pages[HitsWithBody[a]][1]
       /\ req.pc \in {"fetch", "done"}
       /\ req.pc = "done" => /\ req.status = 200
                             /\ Len(req.fetched) = Len(req.similar_pages)

\* C23 witness: of three hits the first was missing upstream and the other
\* two are returned
C23_Witness ==
    /\ req.pc = "done" /\ req.status = 200
    /\ req.fetched = <<"404", "body", "body">>
    /\ Len(req.results) = 2

C25_BulkRefreshAccepted ==
    last.op = "bulk_refresh"
    => /\ last.result = "202"
       /\ IndexState = pre =>
             \A i \in 1..Len(last.items) :
                last.items[i][2].len = DIM => last.items[i][1] \in DOMAIN reverse_map

\* the rows of the whole upstream scan that have a 768-component vector
RECURSIVE Flatten(_)
Flatten(pages) == IF pages = <<>> THEN <<>> ELSE Head(pages) \o Flatten(Tail(pages))
ScanRows == SelectSeq(Flatten(UpstreamPages), LAMBDA r : r.vector.len = DIM)
ScanIds == {ScanRows[i].page_id : i \in 1..Len(ScanRows)}

C28_WritesAtomicToReaders ==
    \A t \in Threads :
       LET th == threads[t]
       IN  /\ \A a \in 1..Len(th.seen) :
                /\ th.seen[a].writers = {}
                /\ Len(th.seen[a].s.index) = Cardinality(DOMAIN th.seen[a].s.id_map)
                /\ \A i \in 0..(Len(th.seen[a].s.index) - 1) : i \in DOMAIN th.seen[a].s.id_map
                /\ th.seen[a] = th.seen[1]
           /\ (th.job = "stats" /\ th.seen # <<>>) => th.ret = get_stats(th.seen[1].s)
           /\ (th.job = "retrieve" /\ Len(th.seen) = 2)
              => th.ret \in search(th.seen[1].s, v_2e1, th.k)

\* C28 witness: a search has made both its reads of a two-row index while
\* the other thread waits for the lock to update a page
C28_Witness ==
    \E t, u \in Threads :
       /\ threads[t].job = "retrieve" /\ Len(threads[t].seen) = 2
       /\ lock["index"] = t
       /\ Len(threads[t].ret) = 2
       /\ threads[u].job = "refresh"
       /\ threads[u].todo # <<>> /\ threads[u].todo[1].do = "acquire"
       /\ threads[u].page_id \in DOMAIN reverse_map

\* C29: while a search holds its place in the scan (between its reads of the
\* index), another search that has reached "with self.lock" can enter it
C29_SearchesDoNotBlock ==
    \A t, u \in Threads :
       (/\ t # u
        /\ threads[t].job = "retrieve" /\ threads[t].todo # <<>>
        /\ threads[t].todo[1].do \in {"scan", "map"}
        /\ threads[u].job = "retrieve" /\ threads[u].todo # <<>>
        /\ threads[u].todo[1].do = "acquire")
       => ENABLED Acquire(u)

\* C30: a thread that is at a network call holds none of the three locks
C30_NoLockAcrossNetwork ==
    \A t \in Threads :
       (threads[t].todo # <<>> /\ threads[t].todo[1].do = "net")
       => \A l \in Locks : lock[l] # t

\* C30 witness: a thread is sending the /refresh notification, after it has
\* counted the event under stats_lock and released it, while the other
\* thread holds the index lock in the middle of a write
C30_Witness ==
    \E t, u \in Threads :
       /\ threads[t].job = "ok" /\ threads[t].todo = <<Step("net", "refresh")>>
       /\ stats.processed_count = 1
       /\ lock["stats"] = None
       /\ lock["index"] = u /\ threads[u].planned

\* C31: for one event the worker makes at most EmbedAttempts embedding
\* requests, at most StoreAttempts upstream writes and at most NotifyAttempts
\* /refresh notifications: every request of a call is counted, a call that
\* still runs has made fewer requests than its limit, and the notification is
\* one request.  A call whose last allowed request fails gives up there,
\* nothing further is sent for the event, and process_message counts the
\* event as an error and returns.
C31_BoundedAttempts ==
    /\ [](/\ wk.pc = "embed" => wk.attempts < EmbedAttempts
          /\ wk.pc = "store" => wk.attempts < StoreAttempts
          /\ outcome.embed = "failed"
             => (outcome.gave_up_at = EmbedAttempts /\ outcome.store = "none"
                 /\ outcome.notify = "none")
          /\ outcome.store = "failed"
             => (outcome.gave_up_at = StoreAttempts /\ outcome.notify = "none"))
    /\ [][/\ (wk.pc \in {"embed", "store"} /\ wk'.pc = wk.pc)
             => wk'.attempts = wk.attempts + 1
          /\ (wk.pc = "notify" /\ wk' # wk) => (wk'.pc = "commit" /\ 1 <= NotifyAttempts)
          /\ (\/ outcome.embed # "failed" /\ outcome'.embed = "failed"
              \/ outcome.store # "failed" /\ outcome'.store = "failed")
             => /\ stats'.error_count = stats.error_count + 1
                /\ stats'.processed_count = stats.processed_count
                /\ wk'.pc = "commit"]_vars

\* C31 witness: the embedding was obtained, the write was given up after its
\* fifth request failed, and the event was counted as an error
C31_Witness ==
    /\ outcome.embed = "ok"
    /\ outcome.store = "failed" /\ outcome.gave_up_at = StoreAttempts
    /\ outcome.store_last = "transport"
    /\ stats.error_count = 1
    /\ wk.pc = "commit"

\* C32: an upstream write answered with 404 or another 4xx status is not
\* tried again: the write fails with it
C32_ClientErrorNotRetried ==
    outcome.store_last \in {"404", "400"} => outcome.store = "failed"

C34_QuoteWithinMaxWords ==
    last.op = "quote"
    => \A a \in 1..Len(last.ret) :
          /\ Len(last.ret[a].quote) <= MAX_WORDS
          /\ last.ret[a].word_count = Len(last.ret[a].quote)

\* C34 witness: the sentence that matches the query has more than MAX_WORDS
\* words, and the quote is its first MAX_WORDS words
C34_Witness ==
    /\ last.op = "quote"
    /\ Len(last.items[1]) = 2
    /\ Len(last.items[1][2]) > MAX_WORDS
    /\ last.items[2].tokens = {"a"}
    /\ Len(last.ret) = 1
    /\ last.ret[1].quote = SubSeq(last.items[1][2], 1, MAX_WORDS)
    /\ last.ret[1].word_count = MAX_WORDS

\* C35: when the text is not empty and no sentence of it shares a token with
\* the query, the quote is the first MAX_WORDS words of the whole text and its
\* score is 0.1
C35_FallbackIsBodyPrefix ==
    (/\ last.op = "quote"
     /\ last.items[1] # <<>> /\ ~last.items[2].empty
     /\ scored_sentences(last.items[2], last.items[1]) = {})
    => /\ Len(last.ret) = 1
       /\ last.ret[1].quote = cut(split(last.items[1]), MAX_WORDS)
       /\ last.ret[1].score.num * 10 = last.ret[1].score.den

\* C36: the scan collects the pages 1, 2, ... of the table each once and in
\* order, its batch being what those pages give; it requests another page
\* only after a page that came with a continuation token, and every scan
\* that has started comes to its end.
C36_ScanTerminates ==
    /\ [](/\ boot.pages = [i \in 1..Len(boot.pages) |-> i]
          /\ boot.pc \in {"fetch", "done"}
             => boot.batch = collect(<<>>, Flatten(SubSeq(UpstreamPages, 1, Len(boot.pages)))))
    /\ [][(Running /\ Running' /\ boot'.pages # boot.pages)
          => /\ boot'.pages = Append(boot.pages, Len(boot.pages) + 1)
             /\ Len(boot'.pages) < Len(UpstreamPages)]_vars
    /\ (boot.pc \in {"start", "fetch"}) ~> (boot.pc \in {"done", "failed"})

\* C36 witness: a scan has ended after both pages of the table, the second
\* of which came without a token
C36_Witness ==
    /\ boot.pc = "done"
    /\ boot.pages = <<1, 2>>
    /\ Len(boot.batch) = 2
    /\ boot.page_state = 2

\* C37: an error raised in the consumer loop takes the worker down only for
\* a time: from there it does nothing but start a new consumer session, at
\* the committed offset, and it always does, so that it polls again.
C37_WorkerResumes ==
    /\ [][wk.pc = "down" /\ wk' # wk
          => /\ wk'.pc = "poll"
             /\ wk'.pos = wk.committed
             /\ wk'.committed = wk.committed]_vars
    /\ (wk.pc = "down") ~> (wk.pc = "poll")

\* C37 witness: the worker polls again after an error that came when the
\* first event was processed and not yet committed
C37_Witness ==
    /\ wk.pc = "poll"
    /\ wk.restarts = 1
    /\ wk.cur = 1 /\ wk.pos = 1 /\ wk.committed = 1
    /\ stats.processed_count = 1

\* C38: an add_vector(p, v) or remove_vector(p) that was carried out leaves
\* every other page that was indexed, the page "" included, indexed with the
\* row it had, and leaves those pages in the order of their slots.
C38_OthersUntouched ==
    (\/ last.op = "add" /\ last.result = "ok"
     \/ last.op = "remove" /\ last.result = "True")
    => LET others == DOMAIN pre.reverse_map \ {last.page_id}
       IN  /\ \A q \in others :
                /\ q \in DOMAIN reverse_map
                /\ index[reverse_map[q] + 1] = pre.index[pre.reverse_map[q] + 1]
           /\ \A q1, q2 \in others :
                (q1 \in DOMAIN reverse_map /\ q2 \in DOMAIN reverse_map
                 /\ pre.reverse_map[q1] < pre.reverse_map[q2])
                => reverse_map[q1] < reverse_map[q2]

\* C39: when a bootstrap has ended and the index is as it left it, the page
\* of the last POST /refresh that was accepted while it ran is indexed with
\* the vector of that refresh
C39_BootstrapKeepsRefresh ==
    (/\ boot.pc = "done" /\ boot.other_writes
     /\ last.op = "refresh" /\ last.result = "202"
     /\ IndexState = boot.post)
    => /\ last.page_id \in DOMAIN reverse_map
       /\ index[reverse_map[last.page_id] + 1] = normalize_L2(last.vector)

\* C40: the slots of id_map are 0..ntotal-1, next_id is ntotal, and every
\* position of the flat index resolves to a page id
C40_SlotsContiguous ==
    /\ DOMAIN id_map = 0..(Len(index) - 1)
    /\ next_id = Len(index)
    /\ \A i \in 0..(Len(index) - 1) : i \in DOMAIN id_map /\ id_map[i] # None

\* C40 witness: a page in the middle of three was removed, or the first of
\* three was updated, and the slots were renumbered
C40_Witness ==
    \/ /\ last.op = "remove" /\ last.result = "True"
       /\ Len(pre.index) = 3 /\ pre.reverse_map[last.page_id] = 1
       /\ Len(index) = 2 /\ next_id = 2
    \/ /\ Updated /\ last.op = "add"
       /\ Len(pre.index) = 3 /\ pre.reverse_map[last.page_id] = 0
       /\ Len(index) = 3 /\ next_id = 3 /\ reverse_map[last.page_id] = 2

====
